---- MODULE Spec2Model ----
(***************************************************************************)
(* Balsam launcher: the task store's state writes (balsam/service/         *)
(* models.py), the runner group of the launcher (balsamlauncher/           *)
(* runners.py, balsam/launcher/launcher.py) and the pull-based MPI         *)
(* ensemble (balsam/launcher/mpi_ensemble_pull.py).                        *)
(*                                                                         *)
(* Three state machines share the task store `db`:                         *)
(*   SpecStore    concurrent update_state calls on the store;              *)
(*   SpecRunner   the launcher's runner group, its subprocesses and exit;  *)
(*   SpecEnsemble the ensemble master and its worker ranks.                *)
(***************************************************************************)
EXTENDS Integers, Sequences, FiniteSets, TLC

VARIABLES
    db,         \* the durable store: job -> [state, hist, version]
    wr,         \* SpecStore: per process, the update_state call in progress
    ncalls,     \* SpecStore: update_state calls made so far
    idle,       \* SpecRunner: worker -> its idle flag
    runners,    \* SpecRunner: RunnerGroup.runners, a list of runner records
    lpc,        \* SpecRunner: the launcher: "loop", "check", "crashed"
    exc,        \* SpecRunner: the exception the last launcher call raised
    HANDLING_EXIT,  \* SpecRunner: launcher.HANDLING_EXIT
    processed,  \* SpecRunner: jobs of the runners the group has seen finished
    any_finished,  \* SpecRunner: what update_and_remove_finished returned last
    node_occupancy,   \* SpecEnsemble: host -> occupancy, in 1/Unit
    job_assignments,  \* SpecEnsemble: rank -> (pk, occ) or None
    job_cache,        \* SpecEnsemble: the master's list of runnable jobs
    killed_pks,       \* SpecEnsemble: the master's list of killed jobs
    recv_requests,    \* SpecEnsemble: the ranks with a receive posted
    toWorker,         \* SpecEnsemble: rank -> messages sent by the master
    toMaster,         \* SpecEnsemble: rank -> messages sent by the worker
    mpc,              \* SpecEnsemble: the master's position in master_main
    alloc,            \* SpecEnsemble: allocate_next_jobs: jobs left, submitted
    wpc,              \* SpecEnsemble: rank -> the worker's position in main
    wproc,            \* SpecEnsemble: rank -> the job of Worker.process
    due,              \* SpecEnsemble: the refresh of killed_pks is due
    txn,              \* SpecEnsemble: the master's open database transaction
    frames,     \* SpecExit: the on_exit invocations in progress, innermost last
    nsignals,   \* SpecExit: signals delivered so far
    cleanups,   \* SpecExit: times the cleanup body of on_exit was entered
    batch,      \* SpecBatch: the batch_update_state call in progress
    nbatch,     \* SpecBatch: batch_update_state calls made so far
    dead,       \* SpecDead: detect_dead_runners: position, jobs found, jobs left
    parents,    \* SpecDeps: BalsamJob.parents of each row of the store
    nparents,   \* SpecDeps: set_parents calls made so far
    waiting,    \* SpecDeps: launcher main: the loop over the waiting jobs
    RUN_NEW_JOBS,  \* SpecDrain: master_main.RUN_NEW_JOBS
    stored,     \* SpecReader: the tasks saved to the store
    workflow,   \* SpecReader: BalsamJob.workflow of each task
    job_source, \* SpecReader: the job reader (job_source)
    now,        \* SpecThrottle: time.time(), in seconds
    last_runner_created,  \* SpecThrottle: main's last_runner_created
    attempt,    \* SpecThrottle: what the last create_runner call did
    idle_time,  \* SpecIdle: master_main.idle_time, in seconds
    ran_anything,  \* SpecIdle: master_main.ran_anything
    got_requests, \* SpecIdle: master_main.got_requests
    spawn,      \* SpecSpawn: the last Worker.start_job call and its Popen calls
    lock        \* SpecLock: the holder of the transition pool's lock

storeVars == <<wr, ncalls>>
runnerVars == <<idle, runners, lpc, exc, HANDLING_EXIT, processed,
               any_finished>>
masterVars == <<node_occupancy, job_assignments, job_cache, killed_pks,
                recv_requests, mpc, alloc, due, txn>>
workerVars == <<wpc, wproc>>
ensVars == <<masterVars, workerVars, toWorker, toMaster>>
exitVars == <<frames, nsignals, cleanups>>
batchVars == <<batch, nbatch>>
deadVars == <<dead>>
depsVars == <<parents, nparents, waiting>>
drainVars == <<RUN_NEW_JOBS>>
readerVars == <<stored, workflow, job_source>>
throttleVars == <<now, last_runner_created, attempt>>
idleVars == <<idle_time, ran_anything, got_requests>>
spawnVars == <<spawn>>
lockVars == <<lock>>
unitVars == <<exitVars, batchVars, deadVars, depsVars, drainVars, readerVars,
              throttleVars, idleVars, spawnVars, lockVars>>
nonExitVars == <<batchVars, deadVars, depsVars, drainVars, readerVars,
                 throttleVars, idleVars, spawnVars, lockVars>>
nonBatchVars == <<exitVars, deadVars, depsVars, drainVars, readerVars,
                  throttleVars, idleVars, spawnVars, lockVars>>
nonDeadVars == <<exitVars, batchVars, depsVars, drainVars, readerVars,
                 throttleVars, idleVars, spawnVars, lockVars>>
nonDepsVars == <<exitVars, batchVars, deadVars, drainVars, readerVars,
                 throttleVars, idleVars, spawnVars, lockVars>>
nonDrainVars == <<exitVars, batchVars, deadVars, depsVars, readerVars,
                  throttleVars, idleVars, spawnVars, lockVars>>
nonReaderVars == <<exitVars, batchVars, deadVars, depsVars, drainVars,
                   throttleVars, idleVars, spawnVars, lockVars>>
nonThrottleVars == <<exitVars, batchVars, deadVars, depsVars, drainVars,
                     readerVars, idleVars, spawnVars, lockVars>>
nonIdleVars == <<exitVars, batchVars, deadVars, depsVars, drainVars,
                 readerVars, throttleVars, spawnVars, lockVars>>
nonSpawnVars == <<exitVars, batchVars, deadVars, depsVars, drainVars,
                  readerVars, throttleVars, idleVars, lockVars>>
nonLockVars == <<exitVars, batchVars, deadVars, depsVars, drainVars,
                 readerVars, throttleVars, idleVars, spawnVars>>

----------------------------------------------------------------------------
(* balsam/service/models.py: states *)

STATES ==
    { "CREATED", "LAUNCHER_QUEUED", "AWAITING_PARENTS", "READY",
      "STAGED_IN", "PREPROCESSED", "RUNNING", "RUN_DONE",
      "POSTPROCESSED", "JOB_FINISHED", "RUN_TIMEOUT", "RUN_ERROR",
      "RESTART_READY", "FAILED", "USER_KILLED", "PARENT_KILLED" }

ACTIVE_STATES == { "RUNNING" }

PROCESSABLE_STATES ==
    { "CREATED", "LAUNCHER_QUEUED", "AWAITING_PARENTS", "READY", "STAGED_IN",
      "RUN_DONE", "POSTPROCESSED", "RUN_TIMEOUT", "RUN_ERROR" }

RUNNABLE_STATES == { "PREPROCESSED", "RESTART_READY" }

END_STATES == { "JOB_FINISHED", "FAILED", "USER_KILLED", "PARENT_KILLED" }

\* The tasks of the store.
Jobs == { "j1", "j2", "j3" }

\* A stored row: the fields update_state reads and writes.  hist is the
\* state_history text, one entry (the state of the history line) per line.
Row(s, h, v) == [state |-> s, hist |-> h, version |-> v]

\* history_line(state, message), lines 139-140: the line appended to
\* state_history (the time stamp is left out).
history_line(state, message) == <<[state |-> state, message |-> message]>>

----------------------------------------------------------------------------
(* BalsamJob.update_state, one database operation per step                 *)

\* Bound: update_state calls in one behaviour of SpecStore.
MaxCalls == 4

\* Bound: kills the user issues in one behaviour of SpecRunner, SpecEnsemble.
MaxKills == 1

\* The concurrent callers of update_state: the launcher's main loop, a runner
\* (or the ensemble master), a transition worker, and two command lines.
Procs == { "main", "runner", "cli1", "cli2" }

\* What each caller writes: the launcher side never writes USER_KILLED, the
\* command line kills (balsam kill) or names a label that is no state.
NewStates(p) ==
    CASE p = "main"   -> { "READY", "RESTART_READY" }
      [] p = "runner" -> { "RUNNING", "RUN_DONE" }
      [] OTHER        -> { "USER_KILLED", "NOT_A_STATE" }

\* The job SpecStore's callers contend for.
StoreJob == "j1"

Idle == [pc |-> "idle", job |-> StoreJob, new |-> "CREATED",
         loc |-> Row("CREATED", <<>>, 0), out |-> "none"]

\* line 479: the absorbing-state guard after the refresh.
IsKilledMut(state) == FALSE
IsKilled(state) == state = "USER_KILLED"

\* IntegerVersionField: the UPDATE is filtered by the version the object was
\* loaded with; no row matched raises RecordModifiedError.
VersionMatches(row, loc) == row.version = loc.version

\* _save_direct with update_fields = [state, state_history] + [version].
SavedRow(loc) == Row(loc.state, loc.hist, loc.version + 1)

\* lines 481-482 (and 490-491): the object's fields before the save.
Applied(loc, new, message) ==
    Row(new, loc.hist \o history_line(new, message), loc.version)

\* lines 472-482: validate, refresh_from_db, guard, set the fields.
Call(p, j, new) ==
    /\ wr[p].pc = "idle"
    /\ ncalls < MaxCalls
    /\ ncalls' = ncalls + 1
    /\ IF new \notin STATES
         THEN wr' = [wr EXCEPT ![p] = [Idle EXCEPT !.job = j, !.new = new,
                                                   !.out = "InvalidStateError"]]
         ELSE IF IsKilled(db[j].state)
           THEN wr' = [wr EXCEPT ![p] = [Idle EXCEPT !.job = j, !.new = new,
                                           !.loc = db[j], !.out = "returned"]]
           ELSE wr' = [wr EXCEPT ![p] = [pc |-> "save", job |-> j, new |-> new,
                                         loc |-> Applied(db[j], new, ""),
                                         out |-> "none"]]
    /\ UNCHANGED <<db, runnerVars, ensVars, unitVars>>

\* lines 483-485: the save; a lost optimistic lock goes to the handler.
Save(p) ==
    /\ wr[p].pc = "save"
    /\ LET j == wr[p].job IN
       IF VersionMatches(db[j], wr[p].loc)
         THEN /\ db' = [db EXCEPT ![j] = SavedRow(wr[p].loc)]
              /\ wr' = [wr EXCEPT ![p].pc = "idle", ![p].out = "saved",
                                  ![p].loc = SavedRow(wr[p].loc)]
         ELSE /\ wr' = [wr EXCEPT ![p].pc = "conflict"]
              /\ UNCHANGED db
    /\ UNCHANGED <<ncalls, runnerVars, ensVars, unitVars>>

\* lines 485-494: refresh, then drop, re-apply or re-raise.
Conflict(p) ==
    /\ wr[p].pc = "conflict"
    /\ LET j == wr[p].job
           new == wr[p].new IN
       IF IsKilled(db[j].state) /\ new # "USER_KILLED"
         THEN wr' = [wr EXCEPT ![p].pc = "idle", ![p].loc = db[j],
                               ![p].out = "dropped"]
         ELSE IF new = "USER_KILLED"
           THEN wr' = [wr EXCEPT ![p].pc = "resave",
                                 ![p].loc = Applied(db[j], new, "")]
           ELSE wr' = [wr EXCEPT ![p].pc = "idle", ![p].loc = db[j],
                                 ![p].out = "RecordModifiedError"]
    /\ UNCHANGED <<db, ncalls, runnerVars, ensVars, unitVars>>

\* line 492: the second save is not guarded.
Resave(p) ==
    /\ wr[p].pc = "resave"
    /\ LET j == wr[p].job IN
       IF VersionMatches(db[j], wr[p].loc)
         THEN /\ db' = [db EXCEPT ![j] = SavedRow(wr[p].loc)]
              /\ wr' = [wr EXCEPT ![p].pc = "idle", ![p].out = "saved",
                                  ![p].loc = SavedRow(wr[p].loc)]
         ELSE /\ wr' = [wr EXCEPT ![p].pc = "idle",
                                  ![p].out = "RecordModifiedError"]
              /\ UNCHANGED db
    /\ UNCHANGED <<ncalls, runnerVars, ensVars, unitVars>>

----------------------------------------------------------------------------
(* update_state as one step: the outcome of lines 472-494 when the only     *)
(* concurrent writer is the user's kill (a kill between the refresh and the *)
(* save ends in the handler's silent return, as a kill before the refresh). *)

UpdateStateMsg(row, new, message) ==
    IF IsKilled(row.state) THEN row ELSE SavedRow(Applied(row, new, message))

\* update_state(new_state) with the default message=''.
UpdateStateRow(row, new) == UpdateStateMsg(row, new, "")

----------------------------------------------------------------------------
(* balsamlauncher/worker.py, balsamlauncher/runners.py                     *)

\* Bounds: the workers of the allocation and the launcher's configuration.
NumWorkers == 2
nodes_per_worker == 1
max_ranks_per_node == 1
MAX_CONCURRENT_RUNNERS == 2

Workers == 1..NumWorkers

\* The names runners.py can resolve: its own definitions and what
\* `from balsamlauncher.exceptions import *` brings in (exceptions.py).
ExceptionsModule ==
    { "BalsamLauncherError", "BalsamRunnerError",
      "ExceededMaxConcurrentRunners", "NoAvailableWorkers",
      "BalsamTransitionError", "TransitionNotFoundError", "MPIEnsembleError" }

\* create_next_runner's locals when line 241 is evaluated.
LocalsAtLine241 ==
    { "self", "runnable_jobs", "workers", "idle_workers", "nidle_workers",
      "nodes_per_worker", "rpn", "nidle_nodes", "nidle_ranks", "serial_jobs",
      "nserial", "mpi_jobs", "largest_mpi_job" }

\* `raise Name(...)`: the exception raised is Name when the name resolves.
Raise(name) == IF name \in ExceptionsModule THEN name ELSE "NameError"

\* The parameters of RunnerGroup.update_and_remove_finished (line 265).
UpdateAndRemoveFinishedParams == { "self" }

\* The tasks' resource demands (BalsamJob.num_nodes, ranks_per_node).
num_nodes(j) == 1
ranks_per_node(j) == IF j = "j3" THEN 2 ELSE 1
num_ranks(j) == num_nodes(j) * ranks_per_node(j)

\* The order in which a queryset lists the jobs.
JobOrder == << "j1", "j2", "j3" >>

SeqOf(S) == SelectSeq(JobOrder, LAMBDA j : j \in S)

Range(f) == { f[i] : i \in DOMAIN f }

Prefix(s, n) == SubSeq(s, 1, IF n < Len(s) THEN n ELSE Len(s))

RECURSIVE SetToSeq(_)
\* The idle workers in the worker group's order.
SetToSeq(S) ==
    IF S = {} THEN <<>>
    ELSE LET m == CHOOSE x \in S : \A y \in S : x <= y
         IN <<m>> \o SetToSeq(S \ {m})

\* math.ceil(a / b) for positive b.
Ceil(a, b) == (a + b - 1) \div b

\* RunnerGroup.running_job_pks
running_job_pks == UNION { Range(runners[i].jobs) : i \in DOMAIN runners }

\* Runner.__init__ / MPIEnsembleRunner.__init__ and start(): the job objects
\* are the ones of the queryset, read when it was evaluated.
NewRunner(cls, jobs, assigned) ==
    [ cls     |-> cls,
      jobs    |-> jobs,
      workers |-> Range(assigned),
      proc    |-> "running",
      prog    |-> [j \in Range(jobs) |-> 0],
      pipe    |-> <<>>,
      queue   |-> <<>>,
      mem     |-> [j \in Range(jobs) |-> db[j].state],
      term    |-> FALSE,
      retcode |-> 0 ]

\* line 207: idle_workers = [w for w in workers if w.idle]
all_workers_of(ws) == SetToSeq(ws)
idle_workers_of(ws) == SetToSeq({ w \in ws : idle[w] })

\* lines 207-258: the jobs, workers and runner class chosen, or the
\* exception raised.
Choose(runnable_jobs) ==
    LET idle_workers == idle_workers_of(Workers)
        nidle_workers == Len(idle_workers)
        rpn == max_ranks_per_node
        nidle_nodes == nidle_workers * nodes_per_worker
        nidle_ranks == nidle_nodes * rpn
        serial_jobs == SelectSeq(runnable_jobs, LAMBDA j : num_ranks(j) = 1)
        nserial == Len(serial_jobs)
        mpi_jobs == SelectSeq(runnable_jobs, LAMBDA j :
                        \/ (1 < num_nodes(j) /\ num_nodes(j) <= nidle_nodes)
                        \/ (1 = num_nodes(j) /\ num_nodes(j) <= nidle_nodes
                            /\ ranks_per_node(j) > 1))
        largest == IF mpi_jobs = <<>> THEN "None"
                   ELSE CHOOSE j \in Range(mpi_jobs) :
                          \A k \in Range(mpi_jobs) : num_nodes(k) <= num_nodes(j)
        pick ==
          IF nserial >= nidle_ranks
            THEN [raise |-> "none", jobs |-> Prefix(serial_jobs, nidle_ranks),
                  workers |-> idle_workers, cls |-> "MPIEnsembleRunner"]
          ELSE IF largest # "None"
            THEN IF "rpw" \notin LocalsAtLine241
                   THEN [raise |-> "NameError"]
                   ELSE [raise |-> "none", jobs |-> <<largest>>,
                         workers |-> Prefix(idle_workers,
                                       Ceil(num_nodes(largest), nodes_per_worker)),
                         cls |-> "MPIRunner"]
            ELSE [raise |-> "none", jobs |-> serial_jobs,
                  workers |-> Prefix(idle_workers,
                                Ceil(nserial, rpn * nodes_per_worker)),
                  cls |-> "MPIEnsembleRunner"]
    IN  IF pick.raise = "none" /\ pick.jobs = <<>>
          THEN [raise |-> "NoAvailableWorkers"]
          ELSE pick

\* The launcher's create_runner catches these two (launcher.py 95-100);
\* anything else ends the launcher.
Caught == { "ExceededMaxRunners", "NoAvailableWorkers" }

AfterRaise(e) == IF e \in Caught THEN "loop" ELSE "crashed"

\* line 263: for worker in assigned_workers: worker.idle = False
MarkBusyForgotten(assigned) == idle
MarkBusy(assigned) ==
    [w \in Workers |-> IF w \in assigned THEN FALSE ELSE idle[w]]

\* RunnerGroup.create_next_runner(runnable_jobs, workers), lines 195-263:
\* what the call does to the runner group.
create_next_runner_call(S) ==
    /\ lpc = "loop"
    /\ S # {}
    /\ S \subseteq { j \in Jobs : db[j].state \in RUNNABLE_STATES } \ running_job_pks
    /\ IF Len(runners) = MAX_CONCURRENT_RUNNERS
         THEN /\ exc' = Raise("ExceededMaxRunners")
              /\ lpc' = AfterRaise(exc')
              /\ UNCHANGED <<idle, runners>>
         ELSE LET c == Choose(SeqOf(S)) IN
              IF c.raise # "none"
                THEN /\ exc' = c.raise
                     /\ lpc' = AfterRaise(exc')
                     /\ UNCHANGED <<idle, runners>>
                ELSE /\ runners' = Append(runners, NewRunner(c.cls, c.jobs, c.workers))
                     /\ idle' = MarkBusy(Range(c.workers))
                     /\ exc' = "none"
                     /\ UNCHANGED lpc

\* A call of create_next_runner on its own.
create_next_runner(S) ==
    /\ create_next_runner_call(S)
    /\ UNCHANGED <<db, HANDLING_EXIT, processed, any_finished, storeVars, ensVars, unitVars>>

\* MPIEnsembleRunner.update_jobs, lines 164-183: a nonzero return code
\* raises; otherwise every available line <pk> <STATE> updates its job.
RECURSIVE ApplyLines(_, _)
ApplyLines(d, lines) ==
    IF lines = <<>> THEN d
    ELSE LET pk == Head(lines)[1]
             st == Head(lines)[2]
         IN ApplyLines([d EXCEPT ![pk] = UpdateStateRow(d[pk], st)], Tail(lines))

RECURSIVE ApplyAll(_, _, _)
\* the lines of runners i, i+1, ... applied in the order of the runner list
ApplyAll(d, lines, i) ==
    IF i > Len(lines) THEN d
    ELSE ApplyAll(ApplyLines(d, lines[i]), lines, i + 1)

EnsembleRaises(r) == r.proc \notin { "running", "exit0" }

\* The runner's job objects after update_jobs: update_state leaves the object
\* as it was refreshed or saved.
MemAfter(r, d) ==
    [j \in DOMAIN r.mem |->
        IF \E i \in DOMAIN r.queue : r.queue[i][1] = j THEN d[j].state
        ELSE r.mem[j]]

\* Runner.finished(): self.process.poll() is not None
finished(r) == r.proc # "running"

\* lines 276-277: the states a finished runner's jobs may be in.
RunTerminal == { "RUN_DONE", "RUN_ERROR", "RUN_TIMEOUT" }

\* update_and_remove_finished, lines 268-272: update_jobs of every runner.
update_jobs_all_call ==
    /\ lpc = "loop"
    /\ runners # <<>>
    /\ IF \E i \in DOMAIN runners : EnsembleRaises(runners[i])
         THEN \* the runners before the one that raises have been updated
              LET k == CHOOSE i \in DOMAIN runners :
                         /\ EnsembleRaises(runners[i])
                         /\ \A h \in 1..(i-1) : ~EnsembleRaises(runners[h])
                  lines == [i \in DOMAIN runners |->
                              IF i < k THEN runners[i].queue ELSE <<>>]
                  d == ApplyAll(db, lines, 1)
              IN /\ db' = d
                 /\ runners' = [i \in DOMAIN runners |->
                      IF i < k
                        THEN [runners[i] EXCEPT !.queue = <<>>,
                                                !.mem = MemAfter(runners[i], d)]
                        ELSE runners[i]]
                 /\ exc' = "RuntimeError"
                 /\ lpc' = "crashed"
         ELSE LET lines == [i \in DOMAIN runners |-> runners[i].queue]
                  d == ApplyAll(db, lines, 1)
              IN /\ db' = d
                 /\ runners' = [i \in DOMAIN runners |->
                      [runners[i] EXCEPT !.queue = <<>>,
                                         !.mem = MemAfter(runners[i], d)]]
                 /\ exc' = "none"
                 /\ lpc' = "check"
    /\ UNCHANGED <<idle, HANDLING_EXIT, processed, any_finished, storeVars, ensVars, nonLockVars>>

update_jobs_all == update_jobs_all_call /\ UNCHANGED lockVars

\* A finished runner with a job outside the run-terminal states (276-277).
NeverInconsistent(r) == FALSE
Inconsistent(r) ==
    finished(r) /\ \E j \in Range(r.jobs) : r.mem[j] \notin RunTerminal

\* line 285: the workers of the removed runners become idle.
ReleaseForgotten(ws) == idle
Release(ws) == [w \in Workers |-> IF w \in ws THEN TRUE ELSE idle[w]]

\* update_and_remove_finished, lines 274-286: every finished runner is
\* checked and removed, in the order of the list; the first finished runner
\* with a job that is not run-terminal raises RuntimeError.
remove_finished ==
    /\ lpc = "check"
    /\ LET bad == { i \in DOMAIN runners : Inconsistent(runners[i]) }
           k == IF bad = {} THEN Len(runners) + 1
                ELSE CHOOSE i \in bad : \A h \in bad : i <= h
           gone == { i \in DOMAIN runners : i < k /\ finished(runners[i]) }
           seen == gone \cup (bad \cap {k})
       IN /\ runners' = SelectSeq(runners, LAMBDA r :
                            ~(\E i \in gone : runners[i] = r))
          /\ idle' = Release(UNION { runners[i].workers : i \in gone })
          /\ processed' = processed \cup
                            UNION { Range(runners[i].jobs) : i \in seen }
          /\ exc' = IF bad = {} THEN "none" ELSE "RuntimeError"
          /\ lpc' = IF bad = {} THEN "loop" ELSE "crashed"
          /\ any_finished' = IF bad # {} THEN "none"
                             ELSE IF gone # {} THEN "True" ELSE "False"
    /\ UNCHANGED <<db, HANDLING_EXIT, storeVars, ensVars, unitVars>>

\* A call with keyword arguments the function does not take raises TypeError
\* before its body runs.
CallError(kwargs, params) ==
    IF kwargs \subseteq params THEN "none" ELSE "TypeError"

\* launcher.on_exit, lines 153-167, entered by a signal at any point of the
\* main loop or after it: runner_group.update_and_remove_finished(timeout=True).
on_exit ==
    /\ lpc \in { "loop", "check" }
    /\ ~HANDLING_EXIT
    /\ HANDLING_EXIT' = TRUE
    /\ exc' = CallError({ "timeout" }, UpdateAndRemoveFinishedParams)
    /\ lpc' = IF exc' = "none" THEN "loop" ELSE "crashed"
    /\ UNCHANGED <<db, idle, runners, processed, any_finished, storeVars, ensVars, unitVars>>

\* The ensemble subprocess prints a line <pk> <STATE> for a job: RUNNING when
\* it starts it, RUN_DONE or RUN_ERROR when it ends.
ProcEmit(i, j, final) ==
    /\ i \in DOMAIN runners
    /\ runners[i].proc = "running"
    /\ j \in Range(runners[i].jobs)
    /\ runners[i].prog[j] < 2
    /\ LET st == IF runners[i].prog[j] = 0 THEN "RUNNING" ELSE final
       IN runners' = [runners EXCEPT
              ![i].prog[j] = @ + 1,
              ![i].pipe = Append(@, <<j, st>>)]
    /\ UNCHANGED <<db, idle, lpc, exc, HANDLING_EXIT, processed, any_finished, storeVars, ensVars, unitVars>>

\* The subprocess ends: with 0 after its last job, or with an error.
ProcExit(i, ok) ==
    /\ i \in DOMAIN runners
    /\ runners[i].proc = "running"
    /\ ok => \A j \in Range(runners[i].jobs) : runners[i].prog[j] = 2
    /\ runners' = [runners EXCEPT ![i].proc = IF ok THEN "exit0" ELSE "exitN",
                                  ![i].retcode = IF ok THEN 0 ELSE 1]
    /\ UNCHANGED <<db, idle, lpc, exc, HANDLING_EXIT, processed, any_finished, storeVars, ensVars, unitVars>>

\* MonitorStream.run, lines 41-45: the thread moves a line of the pipe to
\* the queue that available_lines drains.
MonitorRead(i) ==
    /\ i \in DOMAIN runners
    /\ runners[i].pipe # <<>>
    /\ runners' = [runners EXCEPT
          ![i].queue = Append(@, Head(runners[i].pipe)),
          ![i].pipe = Tail(@)]
    /\ UNCHANGED <<db, idle, lpc, exc, HANDLING_EXIT, processed, any_finished, storeVars, ensVars, unitVars>>

\* The user kills a job from the command line.
UserKill(j) ==
    /\ ~IsKilled(db[j].state)
    /\ ncalls < MaxKills
    /\ ncalls' = ncalls + 1
    /\ db' = [db EXCEPT ![j] = UpdateStateRow(db[j], "USER_KILLED")]
    /\ UNCHANGED <<wr, runnerVars, ensVars, unitVars>>

----------------------------------------------------------------------------
(* balsamlauncher/runners.py: the runners used one by one, as               *)
(* tests/test_runners.py uses them: constructed, started, updated and timed *)
(* out by direct calls, one runner at a time.                               *)

\* signal.SIGTERM: Popen.returncode is -15 for a process it ended.
SIGTERM == 15

\* The return codes of the MPI application (test_runners.py: 0, 255).
AppRetCodes == { 0, 1, 255 }

\* runner = MPIRunner([job], workers) or MPIEnsembleRunner(jobs, workers),
\* then runner.start(): one MPI job (lines 90-91), or serial jobs.
start_runner(cls, js) ==
    /\ runners = <<>>
    /\ js # {}
    /\ js \cap running_job_pks = {}
    /\ \A j \in js : db[j].state \in RUNNABLE_STATES
    /\ IF cls = "MPIRunner"
         THEN Cardinality(js) = 1 /\ \A j \in js : num_ranks(j) > 1
         ELSE \A j \in js : num_ranks(j) = 1
    /\ exc' = "none"
    /\ runners' = Append(runners, NewRunner(cls, SeqOf(js), <<>>))
    /\ UNCHANGED <<db, idle, lpc, HANDLING_EXIT, processed, any_finished, storeVars,
                   ensVars, unitVars>>

\* lines 117-129: the state and the message derived from process.poll().
MpiStateIgnoresPoll(r) == "RUNNING"
MpiState(r) ==
    IF r.proc = "running" THEN "RUNNING"
    ELSE IF r.retcode = 0 THEN "RUN_DONE"
    ELSE "RUN_ERROR"

MpiMsg(r) ==
    IF r.proc = "running" \/ r.retcode = 0 THEN "" ELSE ToString(r.retcode)

\* runner.update_jobs(): MPIRunner lines 114-130, MPIEnsembleRunner lines
\* 164-183.
update_jobs(i) ==
    /\ i \in DOMAIN runners
    /\ LET r == runners[i] IN
       IF r.cls = "MPIRunner"
         THEN LET job == r.jobs[1]
                  curstate == MpiState(r)
                  d == IF r.mem[job] # curstate
                         THEN [db EXCEPT ![job] =
                                 UpdateStateMsg(db[job], curstate, MpiMsg(r))]
                         ELSE db
              IN /\ db' = d
                 /\ runners' = [runners EXCEPT ![i].mem[job] =
                       IF r.mem[job] # curstate THEN d[job].state ELSE @]
                 /\ exc' = "none"
         ELSE IF EnsembleRaises(r)
           THEN /\ exc' = "RuntimeError"
                /\ UNCHANGED <<db, runners>>
           ELSE LET d == ApplyLines(db, r.queue)
                IN /\ db' = d
                   /\ runners' = [runners EXCEPT ![i].queue = <<>>,
                                                 ![i].mem = MemAfter(r, d)]
                   /\ exc' = "none"
    /\ UNCHANGED <<idle, lpc, HANDLING_EXIT, processed, any_finished, storeVars, ensVars,
                   unitVars>>

\* line 83: if job.state == 'RUNNING'
AnyState(state) == TRUE
WasRunning(state) == state = "RUNNING"

RECURSIVE TimeoutJobs(_, _, _)
\* lines 82-83: update_state('RUN_TIMEOUT') of the runner's RUNNING jobs
TimeoutJobs(d, mem, jobs) ==
    IF jobs = <<>> THEN d
    ELSE LET j == Head(jobs)
         IN TimeoutJobs(IF WasRunning(mem[j])
                          THEN [d EXCEPT ![j] = UpdateStateRow(d[j], "RUN_TIMEOUT")]
                          ELSE d,
                        mem, Tail(jobs))

\* Runner.timeout(), lines 80-83: terminate the process, mark the jobs.  A
\* runner is timed out once.
timeout(i) ==
    /\ i \in DOMAIN runners
    /\ ~runners[i].term
    /\ LET r == runners[i]
           d == TimeoutJobs(db, r.mem, r.jobs)
       IN /\ db' = d
          /\ runners' = [runners EXCEPT
                ![i].term = TRUE,
                ![i].mem = [j \in DOMAIN r.mem |->
                              IF WasRunning(r.mem[j]) THEN d[j].state
                              ELSE r.mem[j]]]
    /\ exc' = "none"
    /\ UNCHANGED <<idle, lpc, HANDLING_EXIT, processed, any_finished, storeVars, ensVars,
                   unitVars>>

\* The MPI application ends with a return code, or is ended by the SIGTERM
\* of process.terminate().
mpi_exit(i, code) ==
    /\ i \in DOMAIN runners
    /\ runners[i].cls = "MPIRunner"
    /\ runners[i].proc = "running"
    /\ code = -SIGTERM => runners[i].term
    /\ runners' = [runners EXCEPT
          ![i].proc = IF code = 0 THEN "exit0" ELSE "exitN",
          ![i].retcode = code]
    /\ UNCHANGED <<db, idle, lpc, exc, HANDLING_EXIT, processed, any_finished, storeVars,
                   ensVars, unitVars>>

----------------------------------------------------------------------------
(* balsam/launcher/launcher.py: on_exit, one bytecode boundary per step.   *)
(* A signal handler runs in the main thread between two instructions of    *)
(* whatever is executing, another on_exit included.                        *)

\* Bound: the signals delivered in one behaviour of SpecExit.
MaxSignals == 3

\* frames: the position of every on_exit invocation in progress: "check"
\* before line 156, "set" before line 157, "body" before lines 159-167.
Top == frames[Len(frames)]
Pop == SubSeq(frames, 1, Len(frames) - 1)
SetTop(pc) == [frames EXCEPT ![Len(frames)] = pc]

\* line 156: if HANDLING_EXIT: return
HandlingExitIgnored(flag) == FALSE
AlreadyHandling(flag) == flag

\* lines 149-151 and 218: the main loop ends and main() returns.
main_returns ==
    /\ lpc = "loop"
    /\ frames = <<>>
    /\ lpc' = "after"
    /\ UNCHANGED <<db, idle, runners, exc, HANDLING_EXIT, processed, any_finished,
                   storeVars, ensVars, unitVars>>

\* line 219: on_exit(runner_group, transition_pool, job_source)
call_on_exit ==
    /\ lpc = "after"
    /\ frames = <<>>
    /\ lpc' = "called"
    /\ frames' = <<"check">>
    /\ UNCHANGED <<db, idle, runners, exc, HANDLING_EXIT, processed, any_finished,
                   nsignals, cleanups, storeVars, ensVars, nonExitVars>>

\* lines 213-216: SIGINT, SIGTERM or SIGHUP runs handl, which calls on_exit.
signal_arrives ==
    /\ lpc \in { "loop", "after", "called" }
    /\ nsignals < MaxSignals
    /\ nsignals' = nsignals + 1
    /\ frames' = Append(frames, "check")
    /\ UNCHANGED <<db, runnerVars, cleanups, storeVars, ensVars, nonExitVars>>

\* line 156: an invocation that finds the flag set returns; the module ends
\* when the invocation of line 219 returns.
exit_check ==
    /\ frames # <<>>
    /\ Top = "check"
    /\ IF AlreadyHandling(HANDLING_EXIT)
         THEN /\ frames' = Pop
              /\ lpc' = IF lpc = "called" /\ Pop = <<>> THEN "exited" ELSE lpc
         ELSE /\ frames' = SetTop("set")
              /\ UNCHANGED lpc
    /\ UNCHANGED <<db, idle, runners, exc, HANDLING_EXIT, processed, any_finished,
                   nsignals, cleanups, storeVars, ensVars, nonExitVars>>

\* line 157: HANDLING_EXIT = True; the cleanup body is entered.
exit_set ==
    /\ frames # <<>>
    /\ Top = "set"
    /\ HANDLING_EXIT' = TRUE
    /\ cleanups' = cleanups + 1
    /\ frames' = SetTop("body")
    /\ UNCHANGED <<db, idle, runners, lpc, exc, processed, any_finished,
                   nsignals, storeVars, ensVars, nonExitVars>>

\* lines 159-167: the call of line 161 raises, and the exception unwinds
\* every frame it interrupted; without it the body ends in sys.exit(0).
exit_body ==
    /\ frames # <<>>
    /\ Top = "body"
    /\ exc' = CallError({ "timeout" }, UpdateAndRemoveFinishedParams)
    /\ lpc' = IF exc' = "none" THEN "exited" ELSE "crashed"
    /\ frames' = <<>>
    /\ UNCHANGED <<db, idle, runners, HANDLING_EXIT, processed, any_finished,
                   nsignals, cleanups, storeVars, ensVars, nonExitVars>>

ExitIdle ==
    /\ frames = <<>>
    /\ nsignals = 0
    /\ cleanups = 0

----------------------------------------------------------------------------
(* balsam/service/models.py: BalsamJob.batch_update_state, one query per    *)
(* step, next to the user's kill.                                           *)

\* Bound: batch_update_state calls in one behaviour of SpecBatch.
MaxBatches == 2

NoBatch == [pc |-> "idle", update_ids |-> {}, new_state |-> "CREATED",
            message |-> ""]

\* line 463: update_ids = [jid for (jid, state) in states if state != ...]
NotKilledIds(pk_list) == { j \in pk_list : ~IsKilled(db[j].state) }

\* lines 457-463: validate new_state, read the states of the listed rows and
\* keep the ids of those that are not USER_KILLED.
batch_read(pk_list, new_state, message) ==
    /\ batch.pc = "idle"
    /\ nbatch < MaxBatches
    /\ nbatch' = nbatch + 1
    /\ pk_list # {}
    /\ batch' = IF new_state \notin STATES
                  THEN [NoBatch EXCEPT !.pc = "InvalidStateError"]
                  ELSE [pc |-> "update",
                        update_ids |-> NotKilledIds(pk_list),
                        new_state |-> new_state,
                        message |-> message]
    /\ UNCHANGED <<db, storeVars, runnerVars, ensVars, nonBatchVars>>

\* lines 465-470: one UPDATE of the rows with the kept ids: the state is set
\* and the history line appended; QuerySet.update does not go through save,
\* the version stays.
batch_update ==
    /\ batch.pc = "update"
    /\ db' = [j \in Jobs |->
                IF j \in batch.update_ids
                  THEN Row(batch.new_state,
                           db[j].hist \o history_line(batch.new_state,
                                                      batch.message),
                           db[j].version)
                  ELSE db[j]]
    /\ batch' = NoBatch
    /\ UNCHANGED <<nbatch, storeVars, runnerVars, ensVars, nonBatchVars>>

\* The call has raised InvalidStateError.
batch_raised ==
    /\ batch.pc = "InvalidStateError"
    /\ batch' = NoBatch
    /\ UNCHANGED <<db, nbatch, storeVars, runnerVars, ensVars, nonBatchVars>>

BatchIdle ==
    /\ batch = NoBatch
    /\ nbatch = 0

\* The store when the launcher starts: the tasks are ready to run.
InitDb == [j \in Jobs |-> Row("PREPROCESSED", history_line("CREATED", ""), 1)]

----------------------------------------------------------------------------
(* balsam/launcher/launcher.py: detect_dead_runners at the launcher's start *)

\* JobReader.by_states(states): the tasks of the job source that are in one
\* of the given states.
by_states(states) == { j \in Jobs : db[j].state \in states }

\* line 198: job.update_state('RESTART_READY', 'Detected dead runner')
detect_mark_skipped(row) == row
detect_mark(row) == UpdateStateMsg(row, "RESTART_READY", "Detected dead runner")

\* line 196: the query for the RUNNING jobs is evaluated.
detect_find ==
    /\ dead.pc = "start"
    /\ dead' = [pc |-> "loop", found |-> by_states({ "RUNNING" }),
                todo |-> SeqOf(by_states({ "RUNNING" })), before |-> db]
    /\ UNCHANGED <<db, storeVars, runnerVars, ensVars, nonDeadVars>>

\* lines 196-198: one turn of the loop.
detect_update ==
    /\ dead.pc = "loop"
    /\ dead.todo # <<>>
    /\ db' = [db EXCEPT ![Head(dead.todo)] = detect_mark(@)]
    /\ dead' = [dead EXCEPT !.todo = Tail(@)]
    /\ UNCHANGED <<storeVars, runnerVars, ensVars, nonDeadVars>>

\* lines 213-218: the handlers are installed and main() is entered.
detect_done ==
    /\ dead.pc = "loop"
    /\ dead.todo = <<>>
    /\ dead' = [dead EXCEPT !.pc = "main"]
    /\ UNCHANGED <<db, storeVars, runnerVars, ensVars, nonDeadVars>>

DeadIdle ==
    dead = [pc |-> "start", found |-> {}, todo |-> <<>>, before |-> InitDb]

----------------------------------------------------------------------------
(* balsam/launcher/launcher.py: create_runner, the runner-creation throttle *)

\* Bound: the seconds the clock of SpecThrottle runs.
MaxNow == 3

\* settings.BALSAM_RUNNER_CREATION_PERIOD_SEC (line 83), in seconds.
RUNNER_CREATION_PERIOD == 1

\* JobReader.ALMOST_RUNNABLE_STATES: the states just before a runnable one.
ALMOST_RUNNABLE_STATES == { "READY", "STAGED_IN" }

\* The names a lookup on a BalsamJob queryset resolves: the model's fields
\* (models.py 146-283) and the alias pk of the primary key.
BalsamJobLookups ==
    { "pk", "version", "job_id", "allowed_work_sites", "work_site",
      "workflow", "name", "description", "parents", "input_files",
      "stage_in_url", "stage_out_files", "stage_out_url",
      "wall_time_minutes", "num_nodes", "ranks_per_node", "threads_per_rank",
      "threads_per_core", "serial_node_packing_count", "environ_vars",
      "scheduler_id", "application", "application_args", "direct_command",
      "preprocess", "postprocess", "wait_for_parents", "post_error_handler",
      "post_timeout_handler", "auto_timeout_retry", "state", "state_history" }

\* queryset.exclude(<field>__in=pks): the field is resolved when exclude is
\* called; a name that is no field raises FieldError.
exclude_in(qs, field, pks) ==
    IF field \in BalsamJobLookups
      THEN [raise |-> "none", jobs |-> qs \ pks]
      ELSE [raise |-> "FieldError", jobs |-> {}]

\* line 75: job_source.get_runnable(remaining_minutes)
runnable_of_source == by_states(RUNNABLE_STATES)

\* line 80
almost_runnable == by_states(ALMOST_RUNNABLE_STATES) # {}

\* lines 83-85
runner_ready == now - last_runner_created > RUNNER_CREATION_PERIOD

\* line 88: runnable_jobs.filter(num_nodes=1).filter(ranks_per_node=1).count()
num_serial(runnable_jobs) ==
    Cardinality({ j \in runnable_jobs :
                    num_nodes(j) = 1 /\ ranks_per_node(j) = 1 })

\* lines 89-91
max_serial_per_ensemble == 2 * nodes_per_worker * max_ranks_per_node
ensemble_ready(runnable_jobs) ==
    \/ num_serial(runnable_jobs) >= max_serial_per_ensemble
    \/ num_serial(runnable_jobs) = 0

\* create_runner, lines 70-103, one call of the main loop (lines 142-145).
create_runner ==
    /\ lpc = "loop"
    /\ LET q == exclude_in(runnable_of_source, "job_pk", running_job_pks) IN
       IF q.raise # "none"
         THEN /\ exc' = q.raise
              /\ lpc' = "crashed"
              /\ attempt' = "raised"
              /\ UNCHANGED <<idle, runners, last_runner_created>>
         ELSE IF /\ q.jobs # {}
                 /\ \/ runner_ready
                    \/ ~almost_runnable
                    \/ ensemble_ready(q.jobs)
           THEN /\ create_next_runner_call(q.jobs)
                /\ attempt' = "attempted"
                /\ last_runner_created' =
                     IF exc' = "none" THEN now ELSE last_runner_created
           ELSE /\ attempt' = "skipped"
                /\ UNCHANGED <<idle, runners, lpc, exc, last_runner_created>>
    /\ UNCHANGED <<db, HANDLING_EXIT, processed, any_finished, now, storeVars,
                   ensVars, nonThrottleVars>>

\* time.time() advances between two iterations of the main loop.
clock_tick ==
    /\ lpc = "loop"
    /\ now < MaxNow
    /\ now' = now + 1
    /\ UNCHANGED <<db, storeVars, runnerVars, ensVars, last_runner_created,
                   attempt, nonThrottleVars>>

\* The transition pool's lock (multiprocessing.Lock, launcher.py line 206) is
\* free when the launcher starts.
LockIdle == lock = "free"

\* line 107: last_runner_created = time.time() when main starts.
ThrottleIdle ==
    /\ now = 0
    /\ last_runner_created = 0
    /\ attempt = "none"

----------------------------------------------------------------------------
(* balsam/launcher/launcher.py: check_parents and the waiting jobs of main, *)
(* with the parents set from the command line (BalsamJob.set_parents)       *)

MaxSetParents == 1

\* models.py line 259: wait_for_parents, True by default.
wait_for_parents(j) == j # "j3"

\* JobReader.WAITING_STATES: the states of a task whose dependencies the
\* main loop evaluates.
WAITING_STATES == { "CREATED", "LAUNCHER_QUEUED", "AWAITING_PARENTS" }

\* The state a task in state s goes to next when its transition or its run
\* succeeds.
PipelineNext(s) ==
    CASE s = "READY" -> "STAGED_IN"
      [] s = "STAGED_IN" -> "PREPROCESSED"
      [] s = "PREPROCESSED" -> "RUNNING"
      [] s = "RUNNING" -> "RUN_DONE"
      [] s = "RUN_DONE" -> "POSTPROCESSED"
      [] s = "POSTPROCESSED" -> "JOB_FINISHED"
      [] OTHER -> s

\* No job object.
NoJob == [parents |-> {}, state |-> "CREATED"]

\* The job objects of a query: the fields of each row found, as it was read.
Loaded(found) ==
    [j \in Jobs |-> IF j \in found
                      THEN [parents |-> parents[j], state |-> db[j].state]
                      ELSE NoJob]

\* cli_commands.py lines 270-279 (mkchild), 128-139 (newdep): the job has
\* been saved by newjob, then its parents are set: models.py lines 408-419.
set_parents(j, ps) ==
    /\ nparents < MaxSetParents
    /\ nparents' = nparents + 1
    /\ parents' = [parents EXCEPT ![j] = ps]
    /\ db' = [db EXCEPT ![j] = SavedRow(@)]
    /\ UNCHANGED <<waiting, storeVars, runnerVars, ensVars, nonDepsVars>>

\* launcher.py line 123-124: the waiting jobs are read.
waiting_query ==
    /\ waiting.pc = "check"
    /\ waiting.todo = <<>>
    /\ waiting' = [pc |-> "check", todo |-> SeqOf(by_states(WAITING_STATES)),
                   job |-> Loaded(by_states(WAITING_STATES)), ready |-> FALSE]
    /\ UNCHANGED <<db, parents, nparents, storeVars, runnerVars, ensVars,
                   nonDepsVars>>

\* launcher.py lines 47-48: the parents of the job object are counted.
check_parents_read ==
    /\ waiting.pc = "check"
    /\ waiting.todo # <<>>
    /\ LET job == waiting.job[Head(waiting.todo)]
       IN  waiting' = [waiting EXCEPT
             !.pc = "write",
             !.ready = \A a \in job.parents : db[a].state = "JOB_FINISHED"]
    /\ UNCHANGED <<db, parents, nparents, storeVars, runnerVars, ensVars,
                   nonDepsVars>>

\* launcher.py lines 50-58.
check_parents_write_call ==
    /\ waiting.pc = "write"
    /\ LET j == Head(waiting.todo)
           job == waiting.job[j]
       IN  db' = [db EXCEPT ![j] =
             IF waiting.ready \/ ~wait_for_parents(j)
               THEN UpdateStateMsg(@, "READY", "dependencies satisfied")
               ELSE IF job.state # "AWAITING_PARENTS"
                 THEN UpdateStateMsg(@, "AWAITING_PARENTS",
                        ToString(Cardinality(job.parents)) \o " parents")
                 ELSE @]
    /\ waiting' = [waiting EXCEPT !.pc = "check", !.todo = Tail(@),
                                  !.job[Head(waiting.todo)] = NoJob,
                                  !.ready = FALSE]
    /\ UNCHANGED <<parents, nparents, storeVars, runnerVars, ensVars>>

check_parents_write == check_parents_write_call /\ UNCHANGED nonDepsVars

\* A transition of the pool or a run of task j succeeds.
pipeline_step(j) ==
    /\ PipelineNext(db[j].state) # db[j].state
    /\ db' = [db EXCEPT ![j] = UpdateStateRow(@, PipelineNext(@.state))]
    /\ UNCHANGED <<depsVars, storeVars, runnerVars, ensVars, nonDepsVars>>

NoWaiting == [pc |-> "check", todo |-> <<>>, job |-> [j \in Jobs |-> NoJob],
              ready |-> FALSE]

DepsIdle ==
    /\ parents = [j \in Jobs |-> {}]
    /\ nparents = 0
    /\ waiting = NoWaiting

----------------------------------------------------------------------------
(* The transition pool's lock: launcher.py check_parents, runners.py          *)
(* update_and_remove_finished, detect_dead_runners, and the pool's workers    *)

nonDepsLockVars == <<exitVars, batchVars, deadVars, drainVars, readerVars,
                     throttleVars, idleVars, spawnVars>>

\* The lock is held by the main thread.
MainHolds == lock \in { "check_parents", "update_and_remove_finished" }

\* check_parents, lines 50 and 55: the call writes.
Writes(j) ==
    \/ waiting.ready
    \/ ~wait_for_parents(j)
    \/ waiting.job[j].state # "AWAITING_PARENTS"

\* main, lines 123-125, once detect_dead_runners is done and outside
\* update_and_remove_finished.
main_waiting_query ==
    /\ dead.pc = "main"
    /\ lpc = "loop"
    /\ ~MainHolds
    /\ waiting_query

main_check_parents_read ==
    /\ lpc = "loop"
    /\ ~MainHolds
    /\ check_parents_read

\* check_parents, lines 51 and 56: lock.acquire() blocks until the lock is
\* free.
check_parents_acquire ==
    /\ lpc = "loop"
    /\ waiting.pc = "write"
    /\ Writes(Head(waiting.todo))
    /\ lock = "free"
    /\ lock' = "check_parents"
    /\ UNCHANGED <<db, storeVars, runnerVars, ensVars, nonLockVars>>

\* check_parents, lines 52-53 and 57-58: update_state and lock.release(); a
\* call that does not write does not take the lock.
check_parents_locked ==
    /\ lpc = "loop"
    /\ waiting.pc = "write"
    /\ IF Writes(Head(waiting.todo))
         THEN lock = "check_parents" /\ lock' = "free"
         ELSE ~MainHolds /\ UNCHANGED lock
    /\ check_parents_write_call
    /\ UNCHANGED nonDepsLockVars

\* update_and_remove_finished, line 270: self.lock.acquire()
update_acquire ==
    /\ dead.pc = "main"
    /\ lpc = "loop"
    /\ waiting.pc = "check"
    /\ waiting.todo = <<>>
    /\ runners # <<>>
    /\ lock = "free"
    /\ lock' = "update_and_remove_finished"
    /\ UNCHANGED <<db, storeVars, runnerVars, ensVars, nonLockVars>>

\* update_and_remove_finished, lines 271-272: update_jobs of every runner,
\* then self.lock.release(), which an exception of update_jobs skips.
ReleaseAfterLoop(raised) ==
    IF raised THEN "update_and_remove_finished" ELSE "free"

update_jobs_locked ==
    /\ lock = "update_and_remove_finished"
    /\ update_jobs_all_call
    /\ lock' = ReleaseAfterLoop(exc' # "none")

\* RunnerGroup.create_next_runner between two calls of
\* update_and_remove_finished, for runnable jobs that no runner owns.
main_create_next_runner(S) ==
    /\ dead.pc = "main"
    /\ ~MainHolds
    /\ waiting.pc = "check"
    /\ waiting.todo = <<>>
    /\ S # {}
    /\ S \subseteq by_states(RUNNABLE_STATES) \ running_job_pks
    /\ create_next_runner(S)

\* The states whose transition a worker of the pool runs.
PoolStates == { "READY", "STAGED_IN", "RUN_DONE", "POSTPROCESSED" }

\* A worker of the transition pool takes the lock, writes the state its
\* transition ends in, and releases the lock.
pool_acquire ==
    /\ lock = "free"
    /\ \E j \in Jobs : db[j].state \in PoolStates
    /\ lock' = "pool"
    /\ UNCHANGED <<db, storeVars, runnerVars, ensVars, nonLockVars>>

pool_write(j) ==
    /\ lock = "pool"
    /\ db[j].state \in PoolStates
    /\ pipeline_step(j)

pool_release ==
    /\ lock = "pool"
    /\ lock' = "free"
    /\ UNCHANGED <<db, storeVars, runnerVars, ensVars, nonLockVars>>

----------------------------------------------------------------------------
(* balsam/launcher/launcher.py get_args and the job readers of              *)
(* balsamlauncher/jobreader.py, as tests/test_launcher.py uses them         *)

\* Bound: the lines of a job file.
MaxFileLines == 3

\* The workflow labels of the stored tasks, and one that no task carries.
Workflows == { "one", "two" }
WfNames == Workflows \cup { "three" }

\* A job file: one task id per line, repeated ids included.
JobFiles == UNION { [1..n -> Jobs] : n \in 0..MaxFileLines }

\* The command lines: one of the three options of the exclusive group.
Cmds ==
    { [opt |-> "--consume-all", val |-> "None", file |-> <<>>] }
    \cup { [opt |-> "--wf-name", val |-> w, file |-> <<>>] : w \in WfNames }
    \cup { [opt |-> "--job-file", val |-> "jobsfile", file |-> f] :
             f \in JobFiles }

\* get_args, lines 168-191: the parsed arguments; an option that was not
\* given is None (False for the flag).
get_args_without_wf(cmd) ==
    [job_file |-> IF cmd.opt = "--job-file" THEN cmd.val ELSE "None",
     consume_all |-> cmd.opt = "--consume-all",
     wf_name |-> "None"]
get_args(cmd) ==
    [job_file |-> IF cmd.opt = "--job-file" THEN cmd.val ELSE "None",
     consume_all |-> cmd.opt = "--consume-all",
     wf_name |-> IF cmd.opt = "--wf-name" THEN cmd.val ELSE "None"]

\* JobReader.from_config: a FileJobReader for a job file, a WFJobReader else
\* (with no wf_name for --consume-all).
from_config_class(args) ==
    IF args.job_file # "None" THEN "FileJobReader" ELSE "WFJobReader"

\* FileJobReader: the ids read from the lines of the file.
pk_list_of(file) == file

\* FileJobReader.refresh_from_db: the stored tasks whose id is in the list.

file_jobs(pk_list) == SeqOf({ j \in stored : j \in Range(pk_list) })

\* WFJobReader.refresh_from_db: the stored tasks of the workflow, or all of
\* them when the reader has no wf_name.
wf_jobs(wf_name) ==
    IF wf_name = "None" THEN SeqOf(stored)
    ELSE SeqOf({ j \in stored : workflow[j] = wf_name })

NoSource == [pc |-> "none", cmd |-> [opt |-> "--consume-all", val |-> "None",
                                      file |-> <<>>],
             cls |-> "None", wf_name |-> "None", pk_list |-> <<>>,
             jobs |-> <<>>]

\* tests/test_launcher.py lines 17-22: a task is saved with its workflow.
save_job(j, wf) ==
    /\ j \notin stored
    /\ stored' = stored \cup { j }
    /\ workflow' = [workflow EXCEPT ![j] = wf]
    /\ UNCHANGED <<db, job_source, storeVars, runnerVars, ensVars,
                   nonReaderVars>>

\* launcher.py line 204: job_source = JobReader.from_config(args)
from_config(cmd) ==
    /\ job_source.pc = "none"
    /\ LET args == get_args(cmd)
       IN job_source' = [pc |-> "made", cmd |-> cmd,
                     cls |-> from_config_class(args),
                     wf_name |-> args.wf_name,
                     pk_list |-> IF args.job_file # "None"
                                   THEN pk_list_of(cmd.file) ELSE <<>>,
                     jobs |-> <<>>]
    /\ UNCHANGED <<db, stored, workflow, storeVars, runnerVars, ensVars,
                   nonReaderVars>>

\* source.refresh_from_db(): source.jobs is read from the store.
refresh_from_db ==
    /\ job_source.pc \in { "made", "fresh" }
    /\ job_source' = [job_source EXCEPT
         !.pc = "fresh",
         !.jobs = IF job_source.cls = "FileJobReader"
                    THEN file_jobs(job_source.pk_list)
                    ELSE wf_jobs(job_source.wf_name)]
    /\ UNCHANGED <<db, stored, workflow, storeVars, runnerVars, ensVars,
                   nonReaderVars>>

ReaderIdle ==
    /\ stored = {}
    /\ workflow = [j \in Jobs |-> "one"]
    /\ job_source = NoSource

----------------------------------------------------------------------------
(* balsam/launcher/mpi_ensemble_pull.py: the master (rank 0)               *)

NumRanks == 3
RanksPerHost == 2

Ranks == 0..(NumRanks - 1)
WorkerRanks == 1..(NumRanks - 1)

\* comm.gather of the processor names: consecutive ranks share a host, the
\* first host has one rank less.
host_names == [r \in Ranks |-> (r + 1) \div RanksPerHost]
Hosts == { host_names[r] : r \in Ranks }
host_rank_map == [h \in Hosts |-> { r \in Ranks : host_names[r] = h }]

\* Occupancies are counted in 1/Unit of a node: Unit is the 1.0 of line 93.
Unit == 4

None == [pk |-> "None", occ |-> 0]
Assignment(pk, occ) == [pk |-> pk, occ |-> occ]

\* ResourceManager.__init__
ManagerInit ==
    /\ node_occupancy = [h \in Hosts |-> 0]
    /\ job_assignments =
         [r \in Ranks |-> IF r = 0 THEN Assignment("master", Unit) ELSE None]
    /\ job_cache = <<>>
    /\ killed_pks = {}
    /\ recv_requests = {}
    /\ due = TRUE

serial_node_packing_count(j) == IF j = "j1" THEN 1 ELSE 2

\* line 93: job_occ = 1.0 / job.serial_node_packing_count
job_occ(j) == Unit \div serial_node_packing_count(j)

\* get_runnable(time_limit_min, serial_only=True), ordered by descending
\* serial_node_packing_count: the runnable jobs of the store.
PackOrder == <<"j2", "j3", "j1">>
get_runnable == SelectSeq(PackOrder, LAMBDA j : db[j].state \in RUNNABLE_STATES)

\* line 95: job_occ + occ < 1.001
AdmitsAny(occ, jocc) == TRUE
Admits(occ, jocc) == 1000 * (jocc + occ) < 1001 * Unit

\* line 97: the ranks of a node, whether they have a job or not.
free_ranks_all(h) == host_rank_map[h]

\* lines 95-98: the nodes the job fits on that have a rank without a job, the
\* least occupied first; nodes of equal occupancy come in the order of a set.
free_ranks(h) == { r \in host_rank_map[h] : job_assignments[r] = None }
first_nodes(j) ==
    LET free_nodes == { h \in Hosts : Admits(node_occupancy[h], job_occ(j))
                                       /\ free_ranks(h) # {} }
    IN { h \in free_nodes :
           \A g \in free_nodes : node_occupancy[h] <= node_occupancy[g] }

Min(S) == CHOOSE x \in S : \A y \in S : x <= y

\* A message of the master or of a worker; job is the job it is about.
Msg(tag, job) == [tag |-> tag, job |-> job]

\* A message of a worker: DONE carries elapsed_seconds (lines 438-440), the
\* value parse_real_time found in the tail of the job's output, or None.
WorkerMsg(tag, job, elapsed) == [tag |-> tag, job |-> job, elapsed |-> elapsed]

\* parse_real_time(tail): the seconds of the line `real N.N` that `time -p`
\* (line 385) writes after the command, or None when the tail has no such line.
parse_real_time == { "None", "secs" }

\* The properties of BalsamJob (models.py 368-531); none has a setter.
BalsamJobProperties ==
    { "num_ranks", "cute_id", "app_cmd", "runtime_seconds",
      "working_directory" }

\* job.<name> = value: a property without a setter raises AttributeError.
SetAttr(name) ==
    IF name \in BalsamJobProperties THEN "AttributeError" ELSE "none"

\* _send_job, line 139: job.update_state('RUNNING', ...)
SendJobStateSkipped(row) == row
SendJobState(row) == UpdateStateRow(row, "RUNNING")

\* lines 187-189, 212-214, 232-234: the rank's job is forgotten and its
\* share of the node is given back.
ClearAssignmentForgotten(source) == job_assignments
ClearAssignment(source) == [job_assignments EXCEPT ![source] = None]
KeepOccupancy(source) == node_occupancy
FreeOccupancy(source) ==
    [node_occupancy EXCEPT ![host_names[source]] = @ - job_assignments[source].occ]

\* django.db.transaction.atomic (lines 84, 289, 321): the rows the master has
\* written since the outermost block was entered, as they were before; a
\* nested block is a savepoint of the outermost one.
NoTxn == [open |-> FALSE, rows |-> {}]
Begin == [open |-> TRUE, rows |-> {}]
Logged(j) ==
    IF \E e \in txn.rows : e.pk = j THEN txn
    ELSE [txn EXCEPT !.rows = @ \cup { [pk |-> j, row |-> db[j]] }]

\* Atomic.__exit__ with an exception (sys.exit(0) of line 298 raised in a
\* signal handler that interrupted the block): the transaction is rolled
\* back, the writes d of master_exit with it; before is the store without
\* them.  A row the user has killed meanwhile keeps the kill, which the store
\* applies once the master's lock on the row is gone.
Rollback(before, d) ==
    [j \in Jobs |->
        IF (\E e \in txn.rows : e.pk = j) /\ ~IsKilled(before[j].state)
          THEN (CHOOSE e \in txn.rows : e.pk = j).row
          ELSE before[j]]

\* master_main, line 318: if RUN_NEW_JOBS
MayAllocateAlways(flag) == TRUE
MayAllocate(flag) == flag

\* allocate_next_jobs, line 88: refresh_job_cache; the cache is fetched when
\* FETCH_PERIOD has passed since the last fetch.
refresh_job_cache_call(fetch) ==
    /\ mpc = "top"
    /\ MayAllocate(RUN_NEW_JOBS)
    /\ job_cache' = IF fetch THEN get_runnable ELSE job_cache
    /\ alloc' = [todo |-> job_cache', submitted |-> {}]
    /\ mpc' = "alloc"
    /\ txn' = Begin
    /\ UNCHANGED <<db, node_occupancy, job_assignments, killed_pks,
                   recv_requests, due, toWorker, toMaster, workerVars,
                   storeVars, runnerVars, nonIdleVars>>

refresh_job_cache(fetch) == refresh_job_cache_call(fetch) /\ UNCHANGED idleVars

\* allocate_next_jobs, lines 92-112: one turn of the loop over the cache.
allocate_next_job ==
    /\ mpc = "alloc"
    /\ alloc.todo # <<>>
    /\ LET job == Head(alloc.todo)
       IN IF first_nodes(job) = {}
            THEN /\ alloc' = [alloc EXCEPT !.todo = <<>>]
                 /\ UNCHANGED <<db, node_occupancy, job_assignments,
                                recv_requests, toWorker, txn>>
            ELSE \E free_node \in first_nodes(job) :
                   LET rank == Min(free_ranks(free_node))
                   IN /\ node_occupancy' =
                           [node_occupancy EXCEPT ![free_node] = @ + job_occ(job)]
                      /\ job_assignments' =
                           [job_assignments EXCEPT
                              ![rank] = Assignment(job, job_occ(job))]
                      /\ toWorker' =
                           [toWorker EXCEPT ![rank] = Append(@, Msg("NEW", job))]
                      /\ recv_requests' = recv_requests \cup { rank }
                      /\ db' = [db EXCEPT ![job] = SendJobState(db[job])]
                      /\ txn' = Logged(job)
                      /\ alloc' = [todo |-> Tail(alloc.todo),
                                   submitted |-> alloc.submitted \cup { job }]
    /\ UNCHANGED <<job_cache, killed_pks, mpc, due, toMaster, workerVars,
                   storeVars, runnerVars, unitVars>>

\* allocate_next_jobs, lines 114-118: the submitted jobs leave the cache.
allocate_end_call ==
    /\ mpc = "alloc"
    /\ alloc.todo = <<>>
    /\ job_cache' = SelectSeq(job_cache, LAMBDA j : j \notin alloc.submitted)
    /\ mpc' = "serve"
    /\ txn' = Begin
    /\ UNCHANGED <<db, node_occupancy, job_assignments, killed_pks,
                   recv_requests, alloc, due, toWorker, toMaster, workerVars,
                   storeVars, runnerVars, nonIdleVars>>

allocate_end == allocate_end_call /\ UNCHANGED idleVars

\* master_main, lines 318-321: RUN_NEW_JOBS is False, allocate_next_jobs is
\* not called and the serve loop is entered.
skip_allocate_call ==
    /\ mpc = "top"
    /\ ~MayAllocate(RUN_NEW_JOBS)
    /\ mpc' = "serve"
    /\ txn' = Begin
    /\ UNCHANGED <<db, node_occupancy, job_assignments, job_cache, killed_pks,
                   recv_requests, alloc, due, toWorker, toMaster, workerVars,
                   storeVars, runnerVars, nonIdleVars>>

skip_allocate == skip_allocate_call /\ UNCHANGED idleVars

\* handle_sigusr1, lines 271-273: SIGUSR1 arrives between two instructions
\* of the master, wherever it is.
handle_sigusr1 ==
    /\ mpc \in { "top", "alloc", "serve" }
    /\ RUN_NEW_JOBS
    /\ RUN_NEW_JOBS' = FALSE
    /\ UNCHANGED <<db, ensVars, storeVars, runnerVars, nonDrainVars>>

DrainIdle == RUN_NEW_JOBS = TRUE

\* refresh_killed_jobs, every KILLED_REFRESH_PERIOD.
refresh_killed_jobs ==
    IF due THEN { j \in Jobs : db[j].state = "USER_KILLED" }
    ELSE killed_pks

\* serve_request: a posted receive has completed and its message is handled
\* by _handle_ask, _handle_done or _handle_error.
serve_request_call(source) ==
    /\ mpc = "serve"
    /\ source \in recv_requests
    /\ toMaster[source] # <<>>
    /\ toMaster' = [toMaster EXCEPT ![source] = Tail(@)]
    /\ LET tag == Head(toMaster[source]).tag
           pk == job_assignments[source].pk
       IN IF job_assignments[source] = None
            THEN \* line 183, 198, 223: None does not unpack
                 /\ mpc' = "crashed"
                 /\ recv_requests' = recv_requests \ { source }
                 /\ UNCHANGED <<db, node_occupancy, job_assignments,
                                killed_pks, due, toWorker, txn>>
          ELSE IF /\ tag = "DONE"
                  /\ Head(toMaster[source]).elapsed # "None"
                  /\ SetAttr("runtime_seconds") # "none"
            THEN \* lines 204-208: update_state('RUN_DONE'), then the
                 \* assignment of line 208 raises; the exception leaves the
                 \* atomic block of line 321, which is rolled back.
                 /\ mpc' = "crashed"
                 /\ db' = Rollback(db, db)
                 /\ txn' = NoTxn
                 /\ recv_requests' = recv_requests \ { source }
                 /\ UNCHANGED <<node_occupancy, job_assignments, killed_pks,
                                due, toWorker>>
          ELSE IF tag = "ASK"
            THEN /\ killed_pks' = refresh_killed_jobs
                 /\ due' = FALSE
                 /\ IF pk \in killed_pks'
                      THEN /\ toWorker' = [toWorker EXCEPT
                                  ![source] = Append(@, Msg("KILL", "-"))]
                           /\ job_assignments' = ClearAssignment(source)
                           /\ node_occupancy' = FreeOccupancy(source)
                           /\ recv_requests' = recv_requests \ { source }
                      ELSE /\ toWorker' = [toWorker EXCEPT
                                  ![source] = Append(@, Msg("CONTINUE", "-"))]
                           /\ recv_requests' = recv_requests
                           /\ UNCHANGED <<job_assignments, node_occupancy>>
                 /\ UNCHANGED <<db, mpc, txn>>
            ELSE /\ db' = [db EXCEPT ![pk] = UpdateStateRow(db[pk],
                              IF tag = "DONE" THEN "RUN_DONE" ELSE "RUN_ERROR")]
                 /\ job_assignments' = ClearAssignment(source)
                 /\ node_occupancy' = FreeOccupancy(source)
                 /\ recv_requests' = recv_requests \ { source }
                 /\ txn' = Logged(pk)
                 /\ UNCHANGED <<killed_pks, due, toWorker, mpc>>
    /\ UNCHANGED <<job_cache, alloc, workerVars, storeVars, runnerVars, nonIdleVars>>

serve_request(source) == serve_request_call(source) /\ UNCHANGED idleVars

\* master_main, line 322: serve_request returns False, the loop goes on.
serve_none ==
    /\ mpc = "serve"
    /\ mpc' = "top"
    /\ txn' = NoTxn
    /\ UNCHANGED <<db, node_occupancy, job_assignments, job_cache, killed_pks,
                   recv_requests, alloc, due, toWorker, toMaster, workerVars,
                   storeVars, runnerVars, unitVars>>

\* master_exit, lines 275-277: the time limit is reached, the master has been
\* idle, or SIGINT or SIGTERM arrives.
master_exit ==
    /\ mpc \in { "top", "alloc", "serve" }
    /\ mpc' = "send_exit"
    /\ UNCHANGED <<db, node_occupancy, job_assignments, job_cache, killed_pks,
                   recv_requests, alloc, due, txn, toWorker, toMaster, workerVars,
                   storeVars, runnerVars, unitVars>>

RECURSIVE TimeoutAll(_, _)
\* master_exit, lines 286-289: update_state('RUN_TIMEOUT') of every job
TimeoutAll(d, pks) ==
    IF pks = {} THEN d
    ELSE LET pk == CHOOSE x \in pks : TRUE
         IN TimeoutAll([d EXCEPT ![pk] = UpdateStateRow(d[pk], "RUN_TIMEOUT")],
                       pks \ { pk })

\* send_exit and the rest of master_exit: the pending receives complete, EXIT
\* goes to every rank, the outstanding jobs become RUN_TIMEOUT.
send_exit ==
    /\ mpc = "send_exit"
    /\ \A r \in recv_requests : toMaster[r] # <<>>
    /\ toMaster' = [r \in WorkerRanks |->
                       IF r \in recv_requests THEN Tail(toMaster[r])
                       ELSE toMaster[r]]
    /\ recv_requests' = {}
    /\ toWorker' = [r \in Ranks |->
                       IF r \in WorkerRanks
                         THEN Append(toWorker[r], Msg("EXIT", "-"))
                         ELSE toWorker[r]]
    /\ LET d == TimeoutAll(db, { job_assignments[r].pk : r \in
                              { x \in WorkerRanks : job_assignments[x] # None } })
       IN db' = IF txn.open THEN Rollback(db, d) ELSE d
    /\ txn' = NoTxn
    /\ mpc' = "exited"
    /\ UNCHANGED <<node_occupancy, job_assignments, job_cache, killed_pks,
                   alloc, due, workerVars, storeVars, runnerVars, unitVars>>

\* master_main, lines 262-263
MAX_IDLE_TIME == 10
DELAY_PERIOD == 1

\* The ticks and the requests of one tick that are followed.
MaxIdleTime == 12
MaxGot == 2

\* master_main, lines 326-330: a tick that neither assigned nor served adds
\* DELAY_PERIOD to idle_time, any other tick sets it to 0.
next_idle_time(t, ran, got) ==
    IF ~(ran \/ got # 0) THEN t + DELAY_PERIOD ELSE 0

\* master_main, lines 332-333: the test that leaves the loop.
idle_break_any(t) == t > MAX_IDLE_TIME
idle_break(t) ==
    /\ t > MAX_IDLE_TIME
    /\ \A r \in WorkerRanks : job_assignments[r] = None

\* master_main, lines 315-319: a tick begins with RUN_NEW_JOBS set.
tick_allocates(fetch) ==
    /\ refresh_job_cache_call(fetch)
    /\ ran_anything' = FALSE
    /\ got_requests' = 0
    /\ UNCHANGED idle_time

\* master_main, lines 315-321: a tick begins with RUN_NEW_JOBS cleared.
tick_skips ==
    /\ skip_allocate_call
    /\ ran_anything' = FALSE
    /\ got_requests' = 0
    /\ UNCHANGED idle_time

\* master_main, line 319, and allocate_next_jobs, line 118:
\* ran_anything = len(submitted_indices) > 0
tick_allocated ==
    /\ allocate_end_call
    /\ ran_anything' = (alloc.submitted # {})
    /\ UNCHANGED <<idle_time, got_requests>>

\* master_main, line 322: while manager.serve_request(): got_requests += 1
tick_serves(source) ==
    /\ got_requests < MaxGot
    /\ serve_request_call(source)
    /\ got_requests' = IF mpc' = "serve" THEN got_requests + 1 ELSE got_requests
    /\ UNCHANGED <<idle_time, ran_anything>>

\* master_main, lines 322-335: serve_request returns False, idle_time is
\* brought up to date and the loop is left or goes on with the next tick.
tick_ends ==
    /\ mpc = "serve"
    /\ idle_time' = next_idle_time(idle_time, ran_anything, got_requests)
    /\ idle_time' <= MaxIdleTime
    /\ mpc' = IF idle_break(idle_time') THEN "break" ELSE "top"
    /\ txn' = NoTxn
    /\ UNCHANGED <<db, node_occupancy, job_assignments, job_cache, killed_pks,
                   recv_requests, alloc, due, toWorker, toMaster, workerVars,
                   storeVars, runnerVars, nonIdleVars, ran_anything,
                   got_requests>>

\* master_main, line 336: master_exit() after the loop.
loop_left ==
    /\ mpc = "break"
    /\ mpc' = "send_exit"
    /\ UNCHANGED <<db, node_occupancy, job_assignments, job_cache, killed_pks,
                   recv_requests, alloc, due, txn, toWorker, toMaster, workerVars,
                   storeVars, runnerVars, unitVars>>

IdleIdle ==
    /\ idle_time = 0
    /\ ran_anything = FALSE
    /\ got_requests = 0

\* KILLED_REFRESH_PERIOD has passed since the last refresh of killed_pks.
Tick ==
    /\ mpc \in { "top", "alloc", "serve" }
    /\ ~due
    /\ due' = TRUE
    /\ UNCHANGED <<db, node_occupancy, job_assignments, job_cache, killed_pks,
                   recv_requests, mpc, alloc, txn, toWorker, toMaster, workerVars,
                   storeVars, runnerVars, unitVars>>

----------------------------------------------------------------------------
(* balsam/launcher/mpi_ensemble_pull.py: the workers (ranks 1..)           *)

\* Worker.kill, lines 357-366: self.process = None
kill_keeps_process(process) == process
kill(process) == "None"

\* start_job, line 390: while counter < 4
PopenAttempts == 4

\* What the Popen calls of one start_job do, for one call more than the loop
\* may make: TRUE returns a process, FALSE raises.
PopenOutcomes == [1..(PopenAttempts + 1) -> BOOLEAN]

RECURSIVE start_job_loop(_, _, _, _)
\* start_job, lines 389-406: the loop over the Popen attempts, and what is
\* returned when it is left (None when line 404 finds a process); calls are
\* the outcomes of the Popen calls made.
start_job_loop(popen, counter, process, limit) ==
    IF counter < limit
      THEN IF popen[counter + 1]
             THEN [ret |-> "True", process |-> "proc", counter |-> counter + 1,
                   calls |-> SubSeq(popen, 1, counter + 1)]
             ELSE start_job_loop(popen, counter + 1, "None", limit)
      ELSE [ret |-> IF process = "None" THEN "False" ELSE "None",
            process |-> process, counter |-> counter,
            calls |-> SubSeq(popen, 1, counter)]

start_job_once_more(popen) == start_job_loop(popen, 0, "None", PopenAttempts + 1)
start_job(popen) == start_job_loop(popen, 0, "None", PopenAttempts)

\* What start_job can do, over all outcomes of its Popen calls.
StartJobResults == { start_job(popen) : popen \in PopenOutcomes }

\* What Worker.main sees of them: the return value and self.process.
StartJobReturns ==
    { [ret |-> s.ret, process |-> s.process] : s \in StartJobResults }

\* Worker.main, lines 417-431: a message of the master is received; the Popen
\* calls of start_job are written to spawn when they are followed.
worker_recv_call(r, followed) ==
    /\ wpc[r] = "recv"
    /\ toWorker[r] # <<>>
    /\ toWorker' = [toWorker EXCEPT ![r] = Tail(@)]
    /\ LET msg == Head(toWorker[r])
       IN \/ /\ msg.tag = "NEW"
             /\ \E success \in IF followed THEN StartJobResults
                               ELSE StartJobReturns :
                   \* lines 421-424 and 433
                   /\ spawn' = IF followed
                                 THEN [rank |-> r, calls |-> success.calls,
                                       counter |-> success.counter]
                                 ELSE spawn
                   /\ wproc' = [wproc EXCEPT ![r] =
                         IF success.process = "None" THEN "None" ELSE msg.job]
                   /\ toMaster' =
                         IF success.ret # "True"
                           THEN [toMaster EXCEPT ![r] =
                                   Append(@, WorkerMsg("ERROR", msg.job, "None"))]
                           ELSE toMaster
                   /\ wpc' = [wpc EXCEPT ![r] =
                         IF success.process # "None" THEN "wait" ELSE "recv"]
          \/ /\ msg.tag = "KILL"
             /\ wproc' = [wproc EXCEPT ![r] = kill(@)]
             /\ wpc' = [wpc EXCEPT ![r] = IF wproc'[r] # "None" THEN "wait" ELSE "recv"]
             /\ UNCHANGED <<toMaster, spawn>>
          \/ /\ msg.tag = "CONTINUE"
             /\ wpc' = [wpc EXCEPT ![r] = IF wproc[r] # "None" THEN "wait" ELSE "recv"]
             /\ UNCHANGED <<wproc, toMaster, spawn>>
          \/ /\ msg.tag = "EXIT"
             /\ wproc' = [wproc EXCEPT ![r] = kill(@)]
             /\ wpc' = [wpc EXCEPT ![r] = "exited"]
             /\ UNCHANGED <<toMaster, spawn>>
    /\ UNCHANGED <<db, masterVars, storeVars, runnerVars, nonSpawnVars>>

worker_recv(r) == worker_recv_call(r, FALSE)

\* Worker.main with the Popen calls of start_job followed.
worker_starts(r) == worker_recv_call(r, TRUE)

NoSpawn == [rank |-> 0, calls |-> <<>>, counter |-> 0]

SpawnIdle == spawn = NoSpawn

\* Worker.main, lines 433-445: wait_for_retcode for CHECK_PERIOD, then ASK,
\* DONE or ERROR to the master.
wait_for_retcode(r, retcode) ==
    /\ wpc[r] = "wait"
    /\ \E elapsed \in IF retcode = "0" THEN parse_real_time ELSE { "None" } :
         toMaster' = [toMaster EXCEPT ![r] = Append(@,
            WorkerMsg(IF retcode = "None" THEN "ASK"
                      ELSE IF retcode = "0" THEN "DONE" ELSE "ERROR",
                      wproc[r], elapsed))]
    /\ wproc' = [wproc EXCEPT ![r] = IF retcode = "None" THEN @ ELSE "None"]
    /\ wpc' = [wpc EXCEPT ![r] = "recv"]
    /\ UNCHANGED <<db, masterVars, toWorker, storeVars, runnerVars, unitVars>>

EnsembleIdle ==
    /\ ManagerInit
    /\ mpc = "top"
    /\ alloc = [todo |-> <<>>, submitted |-> {}]
    /\ txn = NoTxn
    /\ toWorker = [r \in Ranks |-> <<>>]
    /\ toMaster = [r \in WorkerRanks |-> <<>>]
    /\ wpc = [r \in WorkerRanks |-> "recv"]
    /\ wproc = [r \in WorkerRanks |-> "None"]

RunnerIdle ==
    /\ idle = [w \in Workers |-> TRUE]
    /\ runners = <<>>
    /\ lpc = "loop"
    /\ exc = "none"
    /\ HANDLING_EXIT = FALSE
    /\ processed = {}
    /\ any_finished = "none"

UnitIdle ==
    /\ ExitIdle
    /\ BatchIdle
    /\ DeadIdle
    /\ DepsIdle
    /\ DrainIdle
    /\ ReaderIdle
    /\ ThrottleIdle
    /\ IdleIdle
    /\ SpawnIdle
    /\ LockIdle


vars == <<db, storeVars, runnerVars, ensVars, unitVars>>

StoreIdle ==
    /\ wr = [p \in Procs |-> Idle]
    /\ ncalls = 0

InitStore ==
    /\ db = InitDb
    /\ StoreIdle
    /\ RunnerIdle
    /\ EnsembleIdle
    /\ UnitIdle

NextStore ==
    \/ \E p \in Procs : \E new \in NewStates(p) : Call(p, StoreJob, new)
    \/ \E p \in Procs : Save(p)
    \/ \E p \in Procs : Conflict(p)
    \/ \E p \in Procs : Resave(p)

SpecStore == InitStore /\ [][NextStore]_vars

InitRunner ==
    /\ db = InitDb
    /\ StoreIdle
    /\ RunnerIdle
    /\ EnsembleIdle
    /\ UnitIdle

NextRunner ==
    \/ \E S \in SUBSET Jobs : create_next_runner(S)
    \/ update_jobs_all
    \/ remove_finished
    \/ on_exit
    \/ \E i \in 1..MAX_CONCURRENT_RUNNERS : \E j \in Jobs :
         \E final \in { "RUN_DONE", "RUN_ERROR" } : ProcEmit(i, j, final)
    \/ \E i \in 1..MAX_CONCURRENT_RUNNERS : \E ok \in BOOLEAN : ProcExit(i, ok)
    \/ \E i \in 1..MAX_CONCURRENT_RUNNERS : MonitorRead(i)
    \/ \E j \in Jobs : UserKill(j)

SpecRunner == InitRunner /\ [][NextRunner]_vars

InitEnsemble ==
    /\ db = InitDb
    /\ StoreIdle
    /\ RunnerIdle
    /\ EnsembleIdle
    /\ UnitIdle

NextEnsemble ==
    \/ \E fetch \in BOOLEAN : refresh_job_cache(fetch)
    \/ allocate_next_job
    \/ allocate_end
    \/ \E r \in WorkerRanks : serve_request(r)
    \/ serve_none
    \/ master_exit
    \/ send_exit
    \/ Tick
    \/ \E r \in WorkerRanks : worker_recv(r)
    \/ \E r \in WorkerRanks : \E retcode \in { "None", "0", "1" } :
         wait_for_retcode(r, retcode)
    \/ \E j \in Jobs : UserKill(j)

SpecEnsemble == InitEnsemble /\ [][NextEnsemble]_vars

\* The ensemble with SIGUSR1 sent to the master.
InitDrain == InitEnsemble

NextDrain ==
    \/ \E fetch \in BOOLEAN : refresh_job_cache(fetch)
    \/ allocate_next_job
    \/ allocate_end
    \/ skip_allocate
    \/ handle_sigusr1
    \/ \E r \in WorkerRanks : serve_request(r)
    \/ serve_none
    \/ master_exit
    \/ send_exit
    \/ Tick
    \/ \E r \in WorkerRanks : worker_recv(r)
    \/ \E r \in WorkerRanks : \E retcode \in { "None", "0", "1" } :
         wait_for_retcode(r, retcode)
    \/ \E j \in Jobs : UserKill(j)

SpecDrain == InitDrain /\ [][NextDrain]_vars

\* The ensemble with the idle time of the master followed: one runnable job.
InitIdle ==
    /\ db = [j \in Jobs |->
               IF j = "j2" THEN InitDb[j]
               ELSE Row("JOB_FINISHED", history_line("JOB_FINISHED", ""), 1)]
    /\ StoreIdle
    /\ RunnerIdle
    /\ EnsembleIdle
    /\ UnitIdle

NextIdle ==
    \/ \E fetch \in BOOLEAN : tick_allocates(fetch)
    \/ tick_skips
    \/ allocate_next_job
    \/ tick_allocated
    \/ handle_sigusr1
    \/ \E r \in WorkerRanks : tick_serves(r)
    \/ tick_ends
    \/ loop_left
    \/ master_exit
    \/ send_exit
    \/ Tick
    \/ \E r \in WorkerRanks : worker_recv(r)
    \/ \E r \in WorkerRanks : \E retcode \in { "None", "0", "1" } :
         wait_for_retcode(r, retcode)
    \/ \E j \in Jobs : UserKill(j)

SpecIdle == InitIdle /\ [][NextIdle]_vars

\* The ensemble with the Popen calls of the workers followed: one runnable
\* job.
InitSpawn ==
    /\ db = [j \in Jobs |->
               IF j = "j1" THEN InitDb[j]
               ELSE Row("JOB_FINISHED", history_line("JOB_FINISHED", ""), 1)]
    /\ StoreIdle
    /\ RunnerIdle
    /\ EnsembleIdle
    /\ UnitIdle

NextSpawn ==
    \/ \E fetch \in BOOLEAN : refresh_job_cache(fetch)
    \/ allocate_next_job
    \/ allocate_end
    \/ \E r \in WorkerRanks : serve_request(r)
    \/ serve_none
    \/ master_exit
    \/ send_exit
    \/ \E r \in WorkerRanks : worker_starts(r)
    \/ \E r \in WorkerRanks : \E retcode \in { "None", "0", "1" } :
         wait_for_retcode(r, retcode)

SpecSpawn == InitSpawn /\ [][NextSpawn]_vars

\* The launcher from its start, with the lock followed: a task left RUNNING
\* by an earlier launcher, a runnable task and two tasks waiting for parents.
InitLock ==
    /\ db = [j \in Jobs |->
               IF j = "j1" THEN Row("RUNNING", history_line("CREATED", ""), 1)
               ELSE IF j = "j2" THEN InitDb[j]
               ELSE Row("CREATED", history_line("CREATED", ""), 1)]
    /\ StoreIdle
    /\ RunnerIdle
    /\ EnsembleIdle
    /\ ExitIdle
    /\ BatchIdle
    /\ DepsIdle
    /\ DrainIdle
    /\ ReaderIdle
    /\ ThrottleIdle
    /\ IdleIdle
    /\ SpawnIdle
    /\ LockIdle
    /\ dead = [pc |-> "start", found |-> {}, todo |-> <<>>, before |-> db]

NextLock ==
    \/ detect_find
    \/ detect_update
    \/ detect_done
    \/ main_waiting_query
    \/ main_check_parents_read
    \/ check_parents_acquire
    \/ check_parents_locked
    \/ \E S \in SUBSET Jobs : main_create_next_runner(S)
    \/ update_acquire
    \/ update_jobs_locked
    \/ remove_finished
    \/ \E i \in 1..MAX_CONCURRENT_RUNNERS : \E j \in Jobs :
         \E final \in { "RUN_DONE", "RUN_ERROR" } : ProcEmit(i, j, final)
    \/ \E i \in 1..MAX_CONCURRENT_RUNNERS : \E ok \in BOOLEAN : ProcExit(i, ok)
    \/ \E i \in 1..MAX_CONCURRENT_RUNNERS : MonitorRead(i)
    \/ pool_acquire
    \/ \E j \in Jobs : pool_write(j)
    \/ pool_release

SpecLock == InitLock /\ [][NextLock]_vars

\* The master's loop and every worker keep running, a message that has been
\* sent is received, and time passes.
FairEnsemble ==
    /\ WF_vars(\E fetch \in BOOLEAN : refresh_job_cache(fetch))
    /\ WF_vars(allocate_next_job)
    /\ WF_vars(allocate_end)
    /\ WF_vars(serve_none)
    /\ WF_vars(send_exit)
    /\ WF_vars(Tick)
    /\ \A r \in WorkerRanks :
         /\ SF_vars(serve_request(r))
         /\ WF_vars(worker_recv(r))
         /\ WF_vars(\E retcode \in { "None", "0", "1" } :
                      wait_for_retcode(r, retcode))

\* The store holds two runnable jobs and a finished one.
InitEnsembleFair ==
    /\ db = [InitDb EXCEPT !["j1"] =
               Row("JOB_FINISHED", history_line("JOB_FINISHED", ""), 1)]
    /\ StoreIdle
    /\ RunnerIdle
    /\ EnsembleIdle
    /\ UnitIdle

SpecEnsembleFair ==
    InitEnsembleFair /\ [][NextEnsemble]_vars /\ FairEnsemble

\* The launcher's exit: the main loop, the signals and on_exit.
InitExit ==
    /\ db = InitDb
    /\ StoreIdle
    /\ RunnerIdle
    /\ EnsembleIdle
    /\ UnitIdle

NextExit ==
    \/ main_returns
    \/ call_on_exit
    \/ signal_arrives
    \/ exit_check
    \/ exit_set
    \/ exit_body

SpecExit == InitExit /\ [][NextExit]_vars

\* The main thread goes on running: the call of line 219 is made and an
\* on_exit invocation that has been entered runs its next instruction; the
\* arrival of a signal is left to the environment.
FairExit ==
    /\ WF_vars(call_on_exit)
    /\ WF_vars(exit_check)
    /\ WF_vars(exit_set)
    /\ WF_vars(exit_body)

SpecExitFair == InitExit /\ [][NextExit]_vars /\ FairExit

\* The runners driven by direct calls.
InitUnit ==
    /\ db = InitDb
    /\ StoreIdle
    /\ RunnerIdle
    /\ EnsembleIdle
    /\ UnitIdle

NextUnit ==
    \/ \E cls \in { "MPIRunner", "MPIEnsembleRunner" } :
         \E js \in SUBSET Jobs : start_runner(cls, js)
    \/ \E i \in DOMAIN runners : update_jobs(i)
    \/ \E i \in DOMAIN runners : timeout(i)
    \/ \E i \in DOMAIN runners :
         \E code \in AppRetCodes \cup { -SIGTERM } : mpi_exit(i, code)
    \/ \E i \in DOMAIN runners : \E j \in Jobs :
         \E final \in { "RUN_DONE", "RUN_ERROR" } :
           /\ runners[i].cls = "MPIEnsembleRunner"
           /\ ProcEmit(i, j, final)
    \/ \E i \in DOMAIN runners : \E ok \in BOOLEAN :
         /\ runners[i].cls = "MPIEnsembleRunner"
         /\ ProcExit(i, ok)
    \/ \E i \in DOMAIN runners : MonitorRead(i)
    \/ \E j \in Jobs : UserKill(j)

SpecUnit == InitUnit /\ [][NextUnit]_vars

\* batch_update_state next to the user's kill.
InitBatch ==
    /\ db = InitDb
    /\ StoreIdle
    /\ RunnerIdle
    /\ EnsembleIdle
    /\ UnitIdle

NextBatch ==
    \/ \E pk_list \in SUBSET Jobs :
         \E new_state \in { "RUN_TIMEOUT", "RESTART_READY", "NOT_A_STATE" } :
           batch_read(pk_list, new_state, "batch")
    \/ batch_update
    \/ batch_raised
    \/ \E j \in Jobs : UserKill(j)

SpecBatch == InitBatch /\ [][NextBatch]_vars

\* The writers of one row: two update_state callers (the ensemble master or
\* a runner, and a command line) and batch_update_state.
WriterProcs == { "runner", "cli1" }

InitWriters == InitStore

NextWriters ==
    \/ \E p \in WriterProcs : \E new \in NewStates(p) : Call(p, StoreJob, new)
    \/ \E p \in WriterProcs : Save(p)
    \/ \E p \in WriterProcs : Conflict(p)
    \/ \E p \in WriterProcs : Resave(p)
    \/ \E new_state \in { "RUN_TIMEOUT", "NOT_A_STATE" } :
         batch_read({ StoreJob }, new_state, "batch")
    \/ batch_update
    \/ batch_raised

SpecWriters == InitWriters /\ [][NextWriters]_vars

\* The rows a launcher that died can have left: a task is ready to run, was
\* running, or is finished.
LeftRows ==
    { Row("PREPROCESSED", history_line("CREATED", ""), 1),
      Row("RUNNING", history_line("CREATED", "") \o history_line("RUNNING", ""), 2),
      Row("JOB_FINISHED", history_line("CREATED", "")
                            \o history_line("JOB_FINISHED", ""), 2) }

\* The launcher's start after a launcher that died.
InitDead ==
    /\ db \in [Jobs -> LeftRows]
    /\ StoreIdle
    /\ RunnerIdle
    /\ EnsembleIdle
    /\ ExitIdle
    /\ BatchIdle
    /\ DepsIdle
    /\ DrainIdle
    /\ ReaderIdle
    /\ ThrottleIdle
    /\ IdleIdle
    /\ SpawnIdle
    /\ LockIdle
    /\ dead = [pc |-> "start", found |-> {}, todo |-> <<>>, before |-> db]

NextDead ==
    \/ detect_find
    \/ detect_update
    \/ detect_done
    \/ \E j \in Jobs : UserKill(j)

SpecDead == InitDead /\ [][NextDead]_vars

\* The tasks have been created (newjob: state CREATED, no parents); the
\* launcher runs while the command line sets their parents.
InitDeps ==
    /\ db = [j \in Jobs |-> Row("CREATED", history_line("CREATED", ""), 1)]
    /\ StoreIdle
    /\ RunnerIdle
    /\ EnsembleIdle
    /\ UnitIdle

NextDeps ==
    \/ \E j \in Jobs : \E ps \in SUBSET (Jobs \ { j }) : set_parents(j, ps)
    \/ waiting_query
    \/ check_parents_read
    \/ check_parents_write
    \/ \E j \in Jobs : pipeline_step(j)

SpecDeps == InitDeps /\ [][NextDeps]_vars

\* The job readers over a store that is being filled.
InitReader == InitStore

NextReader ==
    \/ \E j \in Jobs : \E wf \in Workflows : save_job(j, wf)
    \/ \E cmd \in Cmds : from_config(cmd)
    \/ refresh_from_db

SpecReader == InitReader /\ [][NextReader]_vars

\* The rows of the store at an iteration of the main loop: a task is about
\* to be runnable, runnable, or finished.
LoopRows ==
    { Row("STAGED_IN", history_line("CREATED", "") \o history_line("STAGED_IN", ""), 2),
      Row("PREPROCESSED", history_line("CREATED", ""), 1),
      Row("JOB_FINISHED", history_line("CREATED", "")
                            \o history_line("JOB_FINISHED", ""), 2) }

InitThrottle ==
    /\ db \in [Jobs -> LoopRows]
    /\ StoreIdle
    /\ RunnerIdle
    /\ EnsembleIdle
    /\ UnitIdle

NextThrottle ==
    \/ create_runner
    \/ clock_tick

SpecThrottle == InitThrottle /\ [][NextThrottle]_vars

----------------------------------------------------------------------------
(* Properties                                                              *)

\* The process whose save writes the store in this step.
Saves(p) ==
    /\ wr[p].pc \in { "save", "resave" }
    /\ wr'[p].pc = "idle"
    /\ wr'[p].out = "saved"

\* The update_state call of p ends in this step.
Ends(p) == wr'[p] # wr[p] /\ wr'[p].pc = "idle"

\* C1: USER_KILLED is absorbing.  Once the stored state of a job is
\* USER_KILLED it stays USER_KILLED; the stored row is never changed by an
\* update_state call that writes another state, whatever the interleaving
\* with the kill; and such a call, ending on a killed job, returns without
\* an error (early return or silent drop in the conflict handler).
C1_KilledIsAbsorbing ==
    [][ \A j \in Jobs : db[j].state = "USER_KILLED" =>
          /\ db'[j].state = "USER_KILLED"
          /\ db'[j] # db[j] =>
               \E p \in Procs : Saves(p) /\ wr[p].job = j
                                  /\ wr[p].new = "USER_KILLED"
          /\ \A p \in Procs :
               (Ends(p) /\ wr'[p].job = j /\ wr'[p].new \in STATES \ { "USER_KILLED" })
                 => wr'[p].out \in { "returned", "dropped" } ]_vars

\* C1 witness: a kill landed between a writer's refresh and its save, and
\* the writer's call was dropped by the conflict handler.
C1_Witness ==
    \E p \in Procs : wr[p].out = "dropped" /\ db[wr[p].job].state = "USER_KILLED"

\* The job was RUNNING at some time: it has a RUNNING history line.
EverRunning(j) == \E i \in DOMAIN db[j].hist : db[j].hist[i].state = "RUNNING"

\* C2: every job that was RUNNING under a runner, once the runner group has
\* seen that runner's subprocess finished and processed it, is RUN_DONE,
\* RUN_ERROR, RUN_TIMEOUT or USER_KILLED.
C2_FinishedRunnerJobsAreTerminal ==
    \A j \in processed :
        EverRunning(j) => db[j].state \in RunTerminal \cup { "USER_KILLED" }

\* A create_next_runner call made in this step.
CreateCalled == \E S \in SUBSET Jobs : create_next_runner(S)

\* C3: the runner list never holds more than MAX_CONCURRENT_RUNNERS runners,
\* and a create_next_runner call made at the cap raises ExceededMaxRunners
\* and leaves the runner list and the idle flags unchanged.
C3_CapRaisesExceededMaxRunners ==
    /\ [](Len(runners) <= MAX_CONCURRENT_RUNNERS)
    /\ [][ (CreateCalled /\ Len(runners) = MAX_CONCURRENT_RUNNERS) =>
             /\ exc' = "ExceededMaxRunners"
             /\ UNCHANGED <<runners, idle>> ]_vars

\* C4: a runner is only given workers that are idle at the call and they are
\* marked non-idle; no worker belongs to two active runners; the non-idle
\* workers are those of the active runners.
C4_WorkersAssignedOnce ==
    /\ [](/\ \A i, k \in DOMAIN runners :
               i # k => runners[i].workers \cap runners[k].workers = {}
          /\ \A w \in Workers :
               ~idle[w] <=> \E i \in DOMAIN runners : w \in runners[i].workers)
    /\ [][ Len(runners') > Len(runners) =>
             LET r == runners'[Len(runners')]
             IN /\ r.workers # {}
                /\ \A w \in r.workers : idle[w] /\ ~idle'[w] ]_vars

\* C4 witness: two runners are active, each on its own worker.
C4_Witness ==
    /\ Len(runners) = 2
    /\ runners[1].workers # {} /\ runners[2].workers # {}
    /\ \A w \in runners[1].workers \cup runners[2].workers : ~idle[w]

\* C10: once on_exit has run, no job of a runner that was active at the
\* shutdown is left RUNNING in the store.
C10_ExitLeavesNoJobRunning ==
    HANDLING_EXIT =>
        \A i \in DOMAIN runners : \A j \in Range(runners[i].jobs) :
            db[j].state # "RUNNING"

\* The master is between two steps of its loop.
AtTick == mpc \in { "top", "serve" }

RECURSIVE SumOcc(_)
\* The sum of the shares of the assignments of a set of ranks.
SumOcc(rs) ==
    IF rs = {} THEN 0
    ELSE LET r == CHOOSE x \in rs : TRUE
         IN job_assignments[r].occ + SumOcc(rs \ { r })

\* C5: at every tick of the master, the occupancy of every host is the sum
\* of the shares of the non-None job_assignments of the ranks on that host.
C5_OccupancyIsSumOfShares ==
    AtTick =>
      \A h \in Hosts :
        node_occupancy[h] =
          SumOcc({ r \in host_rank_map[h] : job_assignments[r] # None })

\* C5 as amended: at every tick of the master, the occupancy of every host
\* is the sum of the shares of the non-None job_assignments of the worker
\* ranks on that host (the entry of rank 0 is not counted).
C5_OccupancyIsSumOfWorkerShares ==
    AtTick =>
      \A h \in Hosts :
        node_occupancy[h] =
          SumOcc({ r \in host_rank_map[h] \ { 0 } : job_assignments[r] # None })

\* C5 witness: at a tick, after the rank of j2 has been freed, a host
\* carries the share of j3 alone.
C5_Witness ==
    /\ AtTick
    /\ \E h \in Hosts : node_occupancy[h] = job_occ("j3")
    /\ db["j2"].state \in { "RUN_DONE", "USER_KILLED" }
    /\ \E r \in WorkerRanks : job_assignments[r].pk = "j3"

Packed(h, n) ==
    { r \in host_rank_map[h] \ { 0 } :
        /\ job_assignments[r] # None
        /\ serial_node_packing_count(job_assignments[r].pk) = n }

\* C7: the occupancy of every host stays within [0, 1] up to the tolerance
\* of 0.001, and at most N tasks of packing count N share a node.
C7_OccupancyWithinNode ==
    \A h \in Hosts :
      /\ node_occupancy[h] >= 0
      /\ 1000 * node_occupancy[h] < 1001 * Unit
      /\ \A n \in { serial_node_packing_count(j) : j \in Jobs } :
           Cardinality(Packed(h, n)) <= n

\* C7 witness: a node is full with two tasks of packing count 2.
C7_Witness ==
    \E h \in Hosts : node_occupancy[h] = Unit /\ Cardinality(Packed(h, 2)) = 2

\* The number of NEW messages in a sequence of messages.
NewCount(msgs) == Cardinality({ i \in DOMAIN msgs : msgs[i].tag = "NEW" })

\* C8: a rank has at most one outstanding job.  NEW goes only to a rank
\* other than 0 whose job_assignments entry is None, and the receive is
\* posted in the same step; a message of a worker is only ever in flight
\* from a rank whose receive is posted and whose job_assignments entry is
\* the job the message is about.
C8_OneOutstandingJobPerRank ==
    /\ [](/\ toWorker[0] = <<>>
          /\ job_assignments[0].pk = "master"
          /\ \A r \in WorkerRanks :
               /\ NewCount(toWorker[r]) <= 1
               /\ Len(toMaster[r]) <= 1
               /\ toMaster[r] # <<>> =>
                    /\ r \in recv_requests
                    /\ job_assignments[r] # None
                    /\ Head(toMaster[r]).job = job_assignments[r].pk)
    /\ [][ \A r \in Ranks :
             NewCount(toWorker'[r]) > NewCount(toWorker[r]) =>
               /\ r # 0
               /\ job_assignments[r] = None
               /\ job_assignments'[r].pk = toWorker'[r][Len(toWorker'[r])].job
               /\ r \in recv_requests' ]_vars

\* C8 witness: a rank that has been killed and has got a second job answers
\* for the second job.
C8_Witness ==
    \E r \in WorkerRanks :
      /\ toMaster[r] # <<>>
      /\ Head(toMaster[r]).tag = "DONE"
      /\ \E j \in Jobs : j # Head(toMaster[r]).job /\ db[j].state = "RUN_DONE"

\* The task j the user has killed is assigned to a rank and running there.
KilledRunning(j) ==
    /\ db[j].state = "USER_KILLED"
    /\ \E r \in WorkerRanks : job_assignments[r].pk = j /\ wproc[r] = j

\* The process of task j has ended by itself.
ProcessEnded(j) ==
    \E r \in WorkerRanks : \E i \in DOMAIN toMaster[r] :
        toMaster[r][i].tag \in { "DONE", "ERROR" } /\ toMaster[r][i].job = j

\* The worker has stopped the process of task j.
Stopped(j) == \A r \in WorkerRanks : wproc[r] # j

\* The master has cleared the rank of task j and freed its share.
Cleared(j) ==
    /\ \A r \in WorkerRanks : job_assignments[r].pk # j
    /\ \A h \in Hosts :
         node_occupancy[h] =
           SumOcc({ r \in host_rank_map[h] \ { 0 } : job_assignments[r] # None })

\* The stored state of a killed task stays USER_KILLED.
KilledStays ==
    [][ \A j \in Jobs : db[j].state = "USER_KILLED" =>
                          db'[j].state = "USER_KILLED" ]_vars

\* C9: a task that is killed while it runs on a rank, and whose process
\* keeps running, is eventually answered with KILL: the master clears the
\* rank and frees its share, the worker stops the process, and the stored
\* state stays USER_KILLED.
C9_KilledTaskIsStopped ==
    /\ \A j \in Jobs :
         KilledRunning(j) ~> (ProcessEnded(j) \/ (Stopped(j) /\ Cleared(j)))
    /\ KilledStays

----------------------------------------------------------------------------
----------------------------------------------------------------------------
\* C12: on shutdown the master waits for the outstanding receives, sends
\* EXIT to every rank and marks every task still assigned RUN_TIMEOUT; after
\* the master has exited, no task it assigned remains RUNNING in the store.
C12_NoTaskRunningAfterExit ==
    mpc = "exited" => \A j \in Jobs : db[j].state # "RUNNING"

----------------------------------------------------------------------------
\* C13: Runner.timeout(): on return every job of the runner that was RUNNING
\* is RUN_TIMEOUT, whether or not the subprocess has ended yet, and every
\* other row of the store (a job of the runner that was RUN_DONE or
\* RUN_ERROR included) is as it was.
C13_TimeoutMarksRunningOnly ==
    [][ \A i \in DOMAIN runners : timeout(i) =>
          /\ runners'[i].proc = runners[i].proc
          /\ \A j \in Jobs :
               IF j \in Range(runners[i].jobs) /\ db[j].state = "RUNNING"
                 THEN /\ db'[j].state = "RUN_TIMEOUT"
                      /\ Len(db'[j].hist) = Len(db[j].hist) + 1
                 ELSE db'[j] = db[j] ]_vars

\* An ensemble runner has been timed out while its process was running: one
\* job became RUN_TIMEOUT, another one had finished and is still RUN_DONE.
C13_Witness ==
    /\ runners # <<>>
    /\ runners[1].term
    /\ runners[1].proc = "running"
    /\ \E j, k \in Range(runners[1].jobs) :
         /\ db[j].state = "RUN_TIMEOUT"
         /\ db[k].state = "RUN_DONE"

----------------------------------------------------------------------------
\* The last line of a job's history.
LastLine(row) == row.hist[Len(row.hist)]

\* C14: RUN_TIMEOUT wins over RUN_ERROR: after timeout() has marked the task
\* of an MPI runner RUN_TIMEOUT, an update_jobs that finds the subprocess
\* ended with a non-zero return code leaves the task RUN_TIMEOUT.
C14_TimeoutWinsOverError ==
    [][ \A i \in DOMAIN runners :
          ( /\ update_jobs(i)
            /\ runners[i].cls = "MPIRunner"
            /\ runners[i].term
            /\ runners[i].proc # "running"
            /\ runners[i].retcode # 0
            /\ db[runners[i].jobs[1]].state = "RUN_TIMEOUT" )
          => db'[runners[i].jobs[1]].state = "RUN_TIMEOUT" ]_vars

\* C16: MPIRunner.update_jobs: a running subprocess gives RUNNING, return
\* code 0 gives RUN_DONE, any other return code gives RUN_ERROR with the
\* return code as the message; the state is written (unless the user has
\* killed the task) exactly when it differs from the state of the job object.
C16_StateFollowsPoll ==
    [][ \A i \in DOMAIN runners :
          (update_jobs(i) /\ runners[i].cls = "MPIRunner") =>
            LET r == runners[i]
                job == r.jobs[1]
                expected == IF r.proc = "running" THEN "RUNNING"
                            ELSE IF r.retcode = 0 THEN "RUN_DONE"
                            ELSE "RUN_ERROR"
            IN IF r.mem[job] # expected /\ db[job].state # "USER_KILLED"
                 THEN /\ db'[job].state = expected
                      /\ Len(db'[job].hist) = Len(db[job].hist) + 1
                      /\ LastLine(db'[job]).state = expected
                      /\ LastLine(db'[job]).message =
                           IF expected = "RUN_ERROR" THEN ToString(r.retcode)
                           ELSE ""
                      /\ runners'[i].mem[job] = expected
                 ELSE db' = db ]_vars

\* The application has returned 255 and update_jobs has recorded it.
C16_Witness ==
    /\ runners # <<>>
    /\ runners[1].cls = "MPIRunner"
    /\ runners[1].retcode = 255
    /\ db[runners[1].jobs[1]].state = "RUN_ERROR"
    /\ LastLine(db[runners[1].jobs[1]]).message = "255"

----------------------------------------------------------------------------
\* The runner is still in the group after the step.
Kept(r) == \E k \in DOMAIN runners' : runners'[k] = r

\* A job object of the finished runner is outside the run-terminal states.
HasOpenJob(r) == \E j \in Range(r.jobs) : r.mem[j] \notin RunTerminal

----------------------------------------------------------------------------
\* C19: version-conflict resolution in update_state.  When the save loses,
\* the task is refreshed and (a) a write of another state onto a killed task
\* is dropped silently, (b) a write of USER_KILLED is re-applied on the
\* refreshed record and saved, so that a kill is never lost to a concurrent
\* writer, (c) in every other case the conflict is raised to the caller; the
\* stored record is changed in case (b) only.
C19_ConflictResolution ==
    [][ \A p \in Procs :
          LET j == wr[p].job
              new == wr[p].new
          IN /\ (wr[p].pc = "conflict" /\ wr'[p] # wr[p]) =>
                  /\ db' = db
                  /\ wr'[p].loc.version = db[j].version
                  /\ IF db[j].state = "USER_KILLED" /\ new # "USER_KILLED"
                       THEN wr'[p].pc = "idle" /\ wr'[p].out = "dropped"
                     ELSE IF new = "USER_KILLED"
                       THEN /\ wr'[p].pc = "resave"
                            /\ wr'[p].loc.state = "USER_KILLED"
                       ELSE /\ wr'[p].pc = "idle"
                            /\ wr'[p].out = "RecordModifiedError"
             /\ (wr[p].pc = "resave" /\ wr'[p] # wr[p]) =>
                  /\ wr'[p].out = "saved"
                  /\ db'[j].state = "USER_KILLED"
                  /\ db'[j].version = db[j].version + 1 ]_vars

----------------------------------------------------------------------------
\* C20: batch_update_state never changes the state or the history of a row
\* that is USER_KILLED when the update is applied, whatever the interleaving
\* with a concurrent kill of a listed task; every other listed row gets
\* new_state and one appended history line.
C20_BatchSkipsKilledRows ==
    [][ batch_update =>
          \A j \in Jobs :
            IF db[j].state = "USER_KILLED"
              THEN db'[j] = db[j]
              ELSE j \in batch.update_ids =>
                     /\ db'[j].state = batch.new_state
                     /\ Len(db'[j].hist) = Len(db[j].hist) + 1 ]_vars

----------------------------------------------------------------------------
\* The row has the history line of detect_dead_runners, as its only new line.
Recovered(j) ==
    /\ db[j].state = "RESTART_READY"
    /\ Len(db[j].hist) = Len(dead.before[j].hist) + 1
    /\ LastLine(db[j]) = [state |-> "RESTART_READY",
                          message |-> "Detected dead runner"]

\* The row is as the launcher found it, or the user has killed the task.
Untouched(j) ==
    \/ db[j] = dead.before[j]
    \/ db[j] = UpdateStateRow(dead.before[j], "USER_KILLED")

\* C18: startup recovery: when detect_dead_runners has run and main() is
\* entered, every task that was found RUNNING is RESTART_READY with a history
\* line carrying the message 'Detected dead runner', and no other task has
\* been changed by the launcher.
C18_FoundRunningIsRestartReady ==
    dead.pc = "main" =>
      \A j \in Jobs : IF j \in dead.found THEN Recovered(j) ELSE Untouched(j)

\* C18 (amended): as above, except that a task found RUNNING which the user
\* has killed in the meantime is USER_KILLED.
C18_FoundRunningIsRestartReadyOrKilled ==
    dead.pc = "main" =>
      \A j \in Jobs :
        IF j \in dead.found
          THEN Recovered(j) \/ db[j].state = "USER_KILLED"
          ELSE Untouched(j)

\* Two tasks were found RUNNING and recovered, a third one was left alone.
C18_Witness ==
    /\ dead.pc = "main"
    /\ Cardinality(dead.found) = 2
    /\ \A j \in dead.found : Recovered(j)
    /\ \E j \in Jobs \ dead.found : db[j] = dead.before[j]

----------------------------------------------------------------------------
\* The task has been in the state.
Reached(row, state) == \E i \in DOMAIN row.hist : row.hist[i].state = state

\* The task has left the waiting states.
LeftWaiting(row) ==
    \E i \in DOMAIN row.hist :
      row.hist[i].state \notin WAITING_STATES

\* C17: dependency ordering: a task B with wait_for_parents leaves the
\* waiting states (is marked READY, and later staged in and finished) only
\* when every parent A it has in the store has reached JOB_FINISHED.
C17_ChildLeavesWaitingAfterParents ==
    [][ \A b \in Jobs :
          (wait_for_parents(b) /\ ~LeftWaiting(db[b]) /\ LeftWaiting(db'[b]))
            => \A a \in parents[b] : Reached(db[a], "JOB_FINISHED") ]_vars

----------------------------------------------------------------------------
\* The write of a step appends one line to the stored history.
AppendsOneLine(old, new) ==
    /\ Len(new.hist) = Len(old.hist) + 1
    /\ SubSeq(new.hist, 1, Len(old.hist)) = old.hist

\* C21: every successful state write to a task appends exactly one history
\* line to the stored history, keeping all lines written before it, and
\* increments the version.
C21_WritesAppendAndIncrement ==
    [][ db'[StoreJob] # db[StoreJob] =>
          /\ AppendsOneLine(db[StoreJob], db'[StoreJob])
          /\ db'[StoreJob].version = db[StoreJob].version + 1 ]_vars

----------------------------------------------------------------------------
\* The step sends NEW to a rank.
SendsNew ==
    \E r \in WorkerRanks :
      /\ Len(toWorker'[r]) = Len(toWorker[r]) + 1
      /\ toWorker'[r][Len(toWorker'[r])].tag = "NEW"

----------------------------------------------------------------------------
\* The tasks the command line asks for, of the tasks stored.
Asked(cmd) ==
    CASE cmd.opt = "--consume-all" -> stored
      [] cmd.opt = "--wf-name" -> { j \in stored : workflow[j] = cmd.val }
      [] cmd.opt = "--job-file" ->
           { j \in stored : \E i \in DOMAIN cmd.file : cmd.file[i] = j }

----------------------------------------------------------------------------
\* The quantities create_next_runner decides on, for the runnable jobs S.
SerialJobs(S) == SeqOf({ j \in S : num_ranks(j) = 1 })
NidleNodes == Len(idle_workers_of(Workers)) * nodes_per_worker
NidleRanks == NidleNodes * max_ranks_per_node
FittingMpi(S) ==
    { j \in S : /\ num_nodes(j) <= NidleNodes
                /\ (num_nodes(j) > 1 \/ ranks_per_node(j) > 1) }
LargestMpi(S) ==
    CHOOSE j \in FittingMpi(S) :
      \A k \in FittingMpi(S) : num_nodes(k) <= num_nodes(j)

\* The largest fitting MPI task occupies more nodes than |serial| / rpn.
MpiWins(S) ==
    /\ FittingMpi(S) # {}
    /\ num_nodes(LargestMpi(S)) * max_ranks_per_node > Len(SerialJobs(S))

\* The step appends one runner of the class for the jobs on the first n
\* idle workers and marks exactly those workers busy.
Spawns(cls, jobs, n) ==
    LET assigned == Range(Prefix(idle_workers_of(Workers), n))
    IN /\ Len(runners') = Len(runners) + 1
       /\ SubSeq(runners', 1, Len(runners)) = runners
       /\ runners'[Len(runners')].cls = cls
       /\ runners'[Len(runners')].jobs = jobs
       /\ runners'[Len(runners')].workers = assigned
       /\ idle' = [w \in Workers |-> idle[w] /\ w \notin assigned]

\* C24: admission, MPI branch: with fewer runnable serial tasks than idle
\* ranks and a fitting MPI task that occupies more nodes than |serial| / rpn,
\* create_next_runner appends one MPIRunner for that task on the first
\* ceil(num_nodes / nodes_per_worker) idle workers and marks them busy.
C24_MpiBranchSpawnsMpiRunner ==
    [][ \A S \in SUBSET Jobs :
          ( /\ create_next_runner(S)
            /\ Len(runners) < MAX_CONCURRENT_RUNNERS
            /\ Len(SerialJobs(S)) < NidleRanks
            /\ MpiWins(S) )
          => Spawns("MPIRunner", << LargestMpi(S) >>,
                    Ceil(num_nodes(LargestMpi(S)), nodes_per_worker)) ]_vars

\* C25: admission, ensemble branches: with at least nidle_ranks serial tasks
\* the first nidle_ranks of them run as an ensemble on all idle workers; with
\* fewer and no winning MPI task all of them run as an ensemble on the first
\* ceil(|serial| / rpn / nodes_per_worker) idle workers; with nothing to run
\* NoAvailableWorkers is raised and neither runners nor idle flags change.
C25_EnsembleBranches ==
    [][ \A S \in SUBSET Jobs :
          ( /\ create_next_runner(S)
            /\ Len(runners) < MAX_CONCURRENT_RUNNERS )
          => LET serial == SerialJobs(S)
                 nserial == Len(serial)
             IN /\ (nserial >= NidleRanks /\ NidleRanks > 0) =>
                     Spawns("MPIEnsembleRunner", Prefix(serial, NidleRanks),
                            Len(idle_workers_of(Workers)))
                /\ (0 < nserial /\ nserial < NidleRanks /\ ~MpiWins(S)) =>
                     Spawns("MPIEnsembleRunner", serial,
                            Ceil(nserial, max_ranks_per_node * nodes_per_worker))
                /\ ((nserial >= NidleRanks /\ NidleRanks = 0)
                    \/ (nserial = 0 /\ ~MpiWins(S))) =>
                     /\ exc' = "NoAvailableWorkers"
                     /\ UNCHANGED <<runners, idle>> ]_vars

\* The runnable tasks no active runner owns.
RunnableUnowned == by_states(RUNNABLE_STATES) \ running_job_pks

\* The condition under which a runner is to be created.
ThrottleOpen ==
    /\ RunnableUnowned # {}
    /\ \/ now - last_runner_created > RUNNER_CREATION_PERIOD
       \/ by_states(ALMOST_RUNNABLE_STATES) = {}
       \/ num_serial(RunnableUnowned) >= 2 * nodes_per_worker * max_ranks_per_node
       \/ num_serial(RunnableUnowned) = 0

\* C26: a call of create_runner attempts create_next_runner exactly when
\* some runnable task is owned by no active runner and the creation period
\* has passed, or no task is almost runnable, or the runnable serial tasks
\* fill two workers, or there is none; last_runner_created advances only
\* when a runner was created.
C26_ThrottleDecidesAttempt ==
    [][ create_runner =>
          /\ (attempt' = "attempted") <=> ThrottleOpen
          /\ last_runner_created' # last_runner_created =>
               Len(runners') = Len(runners) + 1 ]_vars

\* The runners of the list that the step takes out of it.
Removed == { i \in DOMAIN runners :
               \A k \in DOMAIN runners' : runners'[k] # runners[i] }

\* The workers the runners of a list hold.
HeldBy(rs) == UNION { rs[i].workers : i \in DOMAIN rs }

\* C27: update_and_remove_finished makes idle exactly the workers of the
\* runners it removes and leaves every other idle flag as it was; no worker
\* is idle while a runner of the list holds it.
C27_RemovedRunnersFreeTheirWorkers ==
    [][ /\ \A w \in HeldBy(runners') : ~idle'[w]
        /\ remove_finished =>
             \A w \in Workers :
               idle'[w] = IF w \in UNION { runners[i].workers : i \in Removed }
                            THEN TRUE ELSE idle[w] ]_vars

\* A runner has been removed and its worker is idle while another runner
\* still holds its own.
C27_Witness ==
    /\ Len(runners) = 1
    /\ any_finished = "True"
    /\ \E w \in Workers : idle[w]
    /\ \A w \in runners[1].workers : ~idle[w]

\* The share of a node the task asks for, and the hosts with room for it.
Share(job) == Unit \div serial_node_packing_count(job)
HasRoom(h, job) == 1000 * (node_occupancy[h] + Share(job)) < 1001 * Unit
HasIdleRank(h) == \E r \in host_rank_map[h] : job_assignments[r] = None

\* The step assigns the job to rank r of host h, sends it there and goes on
\* with the next task of the cache.
PlacesOn(job, h, r) ==
    /\ job_assignments' = [job_assignments EXCEPT ![r] = Assignment(job, Share(job))]
    /\ node_occupancy' = [node_occupancy EXCEPT ![h] = @ + Share(job)]
    /\ toWorker' = [toWorker EXCEPT ![r] = Append(@, Msg("NEW", job))]
    /\ alloc'.todo = Tail(alloc.todo)

\* r is the lowest-numbered rank of h without an assignment.
LowestIdleRank(h, r) ==
    /\ r \in host_rank_map[h]
    /\ job_assignments[r] = None
    /\ \A q \in host_rank_map[h] : job_assignments[q] = None => r <= q

\* The step ends the loop and assigns nothing.
StopsLoop ==
    /\ alloc'.todo = <<>>
    /\ UNCHANGED <<job_assignments, node_occupancy, toWorker>>

\* The cache lists the tasks in descending serial_node_packing_count.
CacheDescending(cache) ==
    \A i, k \in DOMAIN cache :
       i < k => serial_node_packing_count(cache[i])
                  >= serial_node_packing_count(cache[k])

\* The end of allocate_next_jobs: the assigned tasks have left the cache, the
\* others stay in their order.
CacheKeepsUnassigned ==
    allocate_end =>
       job_cache' = SelectSeq(job_cache, LAMBDA j :
                       \A r \in WorkerRanks : job_assignments[r].pk # j)

HandlesAsk(r) ==
    /\ serve_request(r)
    /\ Head(toMaster[r]).tag = "ASK"

\* The step sends the tag to rank r, and nothing else to any rank.
Answers(r, tag) ==
    toWorker' = [toWorker EXCEPT ![r] = Append(@, Msg(tag, "-"))]

\* C29: the master answers an ASK of rank r with KILL exactly when the job
\* assigned to r is in the killed set as last refreshed; it then clears r's
\* assignment, gives r's share of its host back and posts no receive for r.
\* Otherwise it answers CONTINUE, leaves assignment and occupancy alone and
\* posts the receive for r again.  No step sends KILL for a job that is not
\* in the killed set.
C29_AskAnsweredByKilledSet ==
    [][ \A r \in WorkerRanks :
          /\ HandlesAsk(r) =>
               IF job_assignments[r].pk \in killed_pks'
                 THEN /\ Answers(r, "KILL")
                      /\ job_assignments' = [job_assignments EXCEPT ![r] = None]
                      /\ node_occupancy' =
                           [node_occupancy EXCEPT ![host_names[r]] =
                              @ - job_assignments[r].occ]
                      /\ r \notin recv_requests'
                 ELSE /\ Answers(r, "CONTINUE")
                      /\ UNCHANGED <<job_assignments, node_occupancy>>
                      /\ r \in recv_requests'
          /\ ( /\ Len(toWorker'[r]) > Len(toWorker[r])
               /\ toWorker'[r][Len(toWorker'[r])].tag = "KILL" )
             => job_assignments[r].pk \in killed_pks' ]_vars

\* A rank has been answered KILL for a job the user killed, and another
\* rank that asked is still running its job.
C29_Witness ==
    \E r, q \in WorkerRanks :
       /\ toWorker[r] # <<>>
       /\ Head(toWorker[r]).tag = "KILL"
       /\ job_assignments[r] = None
       /\ toWorker[q] # <<>>
       /\ Head(toWorker[q]).tag = "CONTINUE"
       /\ job_assignments[q] # None

\* The last message rank r has sent to the master after the step.
LastSent(r) == toMaster'[r][Len(toMaster'[r])]

\* The worker of rank r reports on its process: ASK while it runs, and one
\* final message when it has ended, DONE for exit code 0 and ERROR otherwise,
\* after which the worker holds no process.
WorkerReports(r) ==
    \A retcode \in { "None", "0", "1" } :
       wait_for_retcode(r, retcode) =>
          /\ Len(toMaster'[r]) = Len(toMaster[r]) + 1
          /\ LastSent(r).job = wproc[r]
          /\ LastSent(r).tag = IF retcode = "None" THEN "ASK"
                               ELSE IF retcode = "0" THEN "DONE" ELSE "ERROR"
          /\ wproc'[r] = IF retcode = "None" THEN wproc[r] ELSE "None"

\* The master handles the final message of rank r: the task is marked
\* RUN_DONE or RUN_ERROR unless it is USER_KILLED, and the rank's assignment
\* and its share of the host are cleared.
MasterRecords(r) ==
    ( /\ serve_request(r)
      /\ Head(toMaster[r]).tag \in { "DONE", "ERROR" } )
    => /\ job_assignments[r] # None
       /\ LET pk == job_assignments[r].pk
              new == IF Head(toMaster[r]).tag = "DONE"
                       THEN "RUN_DONE" ELSE "RUN_ERROR"
          IN /\ pk = Head(toMaster[r]).job
             /\ IF db[pk].state = "USER_KILLED"
                  THEN db' = db
                  ELSE /\ db'[pk].state = new
                       /\ \A j \in Jobs \ { pk } : db'[j] = db[j]
       /\ job_assignments' = [job_assignments EXCEPT ![r] = None]
       /\ node_occupancy' = [node_occupancy EXCEPT ![host_names[r]] =
                                @ - job_assignments[r].occ]

\* C30: a worker that was given a task sends ASK while the process runs and
\* exactly one final message when it ends, DONE for exit code 0 and ERROR
\* otherwise; handling it, the master marks the task RUN_DONE or RUN_ERROR
\* (unless it is USER_KILLED) and clears the rank's assignment and share.
C30_FinalMessageIsRecorded ==
    [][ \A r \in WorkerRanks : WorkerReports(r) /\ MasterRecords(r) ]_vars

\* A step of the master that ends a tick (lines 322-335).
TickEnds == mpc = "serve" /\ mpc' \in { "top", "break" }

\* C31: the master leaves its loop on idleness only with idle_time above
\* MAX_IDLE_TIME and no rank holding an assignment; idle_time changes only at
\* the end of a tick, grows by DELAY_PERIOD when the tick assigned no job and
\* served no request, and becomes 0 when it assigned or served; ran_anything
\* says whether the tick's allocation submitted a job, and got_requests counts
\* the requests the tick has served.
C31_IdleExitOnlyWhenIdleAndUnassigned ==
    /\ [](mpc = "serve" =>
            /\ ran_anything => alloc.submitted # {}
            /\ (RUN_NEW_JOBS /\ alloc.submitted # {}) => ran_anything)
    /\ [][ /\ (mpc # "break" /\ mpc' = "break") =>
                /\ idle_time' > MAX_IDLE_TIME
                /\ \A r \in WorkerRanks : job_assignments[r] = None
           /\ idle_time' # idle_time => TickEnds
           /\ idle_time' > idle_time =>
                /\ idle_time' = idle_time + DELAY_PERIOD
                /\ ~ran_anything
                /\ got_requests = 0
           /\ (TickEnds /\ (ran_anything \/ got_requests > 0)) => idle_time' = 0
           /\ (mpc = "serve" /\ mpc' = "serve" /\ toMaster' # toMaster
                 /\ \E r \in WorkerRanks : Len(toMaster'[r]) < Len(toMaster[r]))
                => got_requests' = got_requests + 1
         ]_vars

\* The master has left its loop on idleness after a job ran to its end.
C31_Witness ==
    /\ mpc = "break"
    /\ \E j \in Jobs : db[j].state \in { "RUN_DONE", "RUN_ERROR" }

\* Rank r receives a NEW message in this step.
ReceivesNew(r) ==
    /\ wpc[r] = "recv"
    /\ toWorker[r] # <<>>
    /\ Head(toWorker[r]).tag = "NEW"
    /\ toWorker'[r] = Tail(toWorker[r])

\* The Popen calls before the last one all raised.
AllRaised(calls) == \A i \in 1..(Len(calls) - 1) : ~calls[i]

\* C32: for one NEW message the worker calls Popen at most 4 times and stops
\* at the first call that returns; when all 4 raise it holds no process, sends
\* one ERROR and nothing else, and waits for the next message; when one
\* returns it holds the process and sends nothing.
C32_SpawnRetriedAtMostFourTimes ==
    [][ \A r \in WorkerRanks : ReceivesNew(r) =>
          /\ spawn'.rank = r
          /\ spawn'.counter \in 1..4
          /\ Len(spawn'.calls) = spawn'.counter
          /\ AllRaised(spawn'.calls)
          /\ IF spawn'.calls[spawn'.counter]
               THEN /\ wproc'[r] = Head(toWorker[r]).job
                    /\ toMaster'[r] = toMaster[r]
                    /\ wpc'[r] = "wait"
               ELSE /\ spawn'.counter = 4
                    /\ wproc'[r] = "None"
                    /\ Len(toMaster'[r]) = Len(toMaster[r]) + 1
                    /\ toMaster'[r][Len(toMaster'[r])].tag = "ERROR"
                    /\ wpc'[r] = "recv"
      ]_vars

\* A rank whose four Popen calls raised holds no process, has sent ERROR and
\* waits for the next message.
C32_Witness ==
    \E r \in WorkerRanks :
      /\ spawn.rank = r /\ spawn.counter = 4 /\ ~spawn.calls[4]
      /\ wproc[r] = "None" /\ wpc[r] = "recv"
      /\ toMaster[r] # <<>> /\ Head(toMaster[r]).tag = "ERROR"

\* The step is the count of lines 47-48 for task j.
CountsParents(j) ==
    /\ waiting.pc = "check" /\ waiting'.pc = "write"
    /\ waiting.todo # <<>> /\ Head(waiting.todo) = j

\* The step is lines 50-58 for task j.
DecidesParents(j) ==
    /\ waiting.pc = "write" /\ waiting'.pc = "check"
    /\ Head(waiting.todo) = j

\* Every parent stored for task j is JOB_FINISHED.
ParentsFinished(j) == \A a \in parents[j] : db[a].state = "JOB_FINISHED"

\* C33: check_parents of a waiting task finds it ready exactly when all of
\* its parents are JOB_FINISHED; a task found ready, or with wait_for_parents
\* false, is set to READY; any other is set to AWAITING_PARENTS with the
\* number of its parents as message, by a write made only if it is not
\* already AWAITING_PARENTS; a task with wait_for_parents and a parent that
\* is not JOB_FINISHED is never set to READY.
C33_CheckParentsDecidesByParents ==
    [][ \A j \in Jobs :
          /\ CountsParents(j) => (waiting'.ready <=> ParentsFinished(j))
          /\ DecidesParents(j) =>
               IF waiting.ready \/ ~wait_for_parents(j)
                 THEN db'[j].state = "READY"
               ELSE IF db[j].state # "AWAITING_PARENTS"
                 THEN /\ db'[j].state = "AWAITING_PARENTS"
                      /\ db'[j].hist[Len(db'[j].hist)].message =
                           ToString(Cardinality(parents[j])) \o " parents"
                 ELSE db'[j] = db[j]
          /\ (db[j].state # "READY" /\ db'[j].state = "READY"
                /\ wait_for_parents(j)) => ParentsFinished(j)
      ]_vars

\* Every task of the job source is in an END state (line 148:
\* job_source.by_states(END_STATES).count() == job_source.jobs.count()).
AllEnd == Cardinality(by_states(END_STATES)) = Cardinality(Jobs)

\* C34: the main loop is left only at the end of an iteration that finds
\* every task of the job source in an END state, by the break of line 150,
\* after which main returns and on_exit is called; it is left in no other
\* way while a task is in another state.
C34_LoopLeftOnlyWhenAllEnd ==
    [][ (lpc = "loop" /\ lpc' # "loop") => (lpc' = "after" /\ AllEnd) ]_vars

\* The step is a state write of the launcher's main thread: check_parents,
\* update_jobs of the runners, or detect_dead_runners.
MainThreadWrites ==
    /\ db' # db
    /\ \/ check_parents_locked
       \/ update_jobs_locked
       \/ detect_update

\* C35: every state write of the launcher's main thread is made while the
\* main thread holds the transition pool's lock.
C35_MainThreadWritesHoldLock ==
    [][ MainThreadWrites => MainHolds ]_vars

\* C40: when check_parents or the locked part of update_and_remove_finished
\* has ended, by returning or by an exception, the main thread does not hold
\* the lock.
C40_LockReleasedAfterCalls ==
    [][ (check_parents_locked \/ update_jobs_locked) => ~MainHolds' ]_vars

\* C36: once a signal has been delivered, on_exit runs to its end (the
\* runner group's timeout step, then the end of the transition pool) and the
\* launcher exits with code 0.
C36_ShutdownCompletes ==
    (nsignals > 0) ~> (lpc = "exited")

\* The jobs of runner r that are not run-terminal on its job objects are
\* all USER_KILLED in the store.
OnlyKilledOpen(r) ==
    /\ \E j \in Range(r.jobs) : db[j].state = "USER_KILLED"
    /\ \A j \in Range(r.jobs) :
         r.mem[j] \in RunTerminal \/ db[j].state = "USER_KILLED"

\* C37: update_and_remove_finished tolerates an external kill: when every
\* finished runner's open jobs are USER_KILLED in the store, the check of the
\* finished runners raises nothing, removes each finished runner and frees
\* its workers; and no step of the runner group takes a job out of USER_KILLED.
C37_KillToleratedByRunnerGroup ==
    [][ /\ \A j \in Jobs :
             db[j].state = "USER_KILLED" => db'[j].state = "USER_KILLED"
        /\ ( /\ remove_finished
             /\ \E i \in DOMAIN runners : finished(runners[i])
             /\ \A i \in DOMAIN runners :
                  finished(runners[i]) => OnlyKilledOpen(runners[i]) )
           => /\ exc' = "none"
              /\ \A i \in DOMAIN runners : finished(runners[i]) =>
                   /\ \A k \in DOMAIN runners' : runners'[k] # runners[i]
                   /\ \A w \in runners[i].workers : idle'[w] ]_vars

\* The final message of rank r's task is on its way to the master.
FinalSent(r) ==
    /\ job_assignments[r] # None
    /\ \E i \in DOMAIN toMaster[r] : toMaster[r][i].tag \in { "DONE", "ERROR" }

FinalState(r) ==
    IF \E i \in DOMAIN toMaster[r] : toMaster[r][i].tag = "DONE"
      THEN "RUN_DONE" ELSE "RUN_ERROR"

\* C38: when the master shuts down (send_exit and the rest of master_exit),
\* a task whose worker has already sent DONE or ERROR ends in RUN_DONE
\* respectively RUN_ERROR in the store, and only a task whose process is
\* still running is marked RUN_TIMEOUT.
C38_ShutdownKeepsTerminalStates ==
    [][ send_exit =>
          \A r \in WorkerRanks :
            LET pk == job_assignments[r].pk IN
            /\ (FinalSent(r) /\ ~IsKilled(db[pk].state))
                 => db'[pk].state = FinalState(r)
            /\ ( /\ job_assignments[r] # None
                 /\ db'[pk].state = "RUN_TIMEOUT"
                 /\ db[pk].state # "RUN_TIMEOUT" )
                 => wproc[r] = pk ]_vars

\* No job is in the job lists of two runners of the list.
OneOwner(rs) ==
    \A i, k \in DOMAIN rs :
      i # k => Range(rs[i].jobs) \cap Range(rs[k].jobs) = {}

\* The jobs of the runners the step appends to the list.
Admitted ==
    UNION { Range(runners'[k].jobs) :
              k \in { n \in DOMAIN runners' : n > Len(runners) } }

\* C39: a call of create_runner takes the jobs owned by an active runner out
\* of the runnable set (it does not end in an error of the exclusion), admits
\* none of them, and leaves every job in the job list of at most one runner.
C39_NoTaskInTwoRunners ==
    [][ create_runner =>
          /\ attempt' # "raised"
          /\ Admitted \cap running_job_pks = {}
          /\ OneOwner(runners') ]_vars

====
